---- MODULE Spec2Model ----
(***************************************************************************)
(* private-journal-mcp: dual-root journal storage, the embedding location  *)
(* policy, the write path and the reconciliation scan.                     *)
(*                                                                         *)
(* Strings are sequences of tokens.  A token is a TLA+ string standing for *)
(* one character (" ", "/", ".") or for an atom no operation looks inside  *)
(* ("home", "2025-12-22", ".md").  Equality, prefix and suffix on token    *)
(* sequences are then equality, startsWith and endsWith on the strings.    *)
(* An optional string (string | undefined) is a record [set, val].         *)
(***************************************************************************)
EXTENDS Naturals, Sequences, FiniteSets, TLC

\* ------------------------------------------------------------------ bounds

\* Markdown files the filesystem may hold at once.
MaxMd == 2
\* Changes of the environment variables while the process runs.
MaxEnvChanges == 1
\* Calls of resolveUserJournalPath that can be in flight at once.
MaxCallers == 2
\* Markdown files on disk up to which the calls with every shape of
\* thoughts and metadata are made.
MaxEntryFiles == 1

\* ----------------------------------------------------------------- strings

Unset == [set |-> FALSE, val |-> <<>>]
Str(s) == [set |-> TRUE, val |-> s]

\* JavaScript truthiness of string | undefined: set and not "".
Truthy(o) == o.set /\ o.val # <<>>

IsWhitespace(t) == t \in {" ", "\n"}

RECURSIVE TrimStart(_)
TrimStart(s) ==
  IF s # <<>> /\ IsWhitespace(Head(s)) THEN TrimStart(Tail(s)) ELSE s

RECURSIVE TrimEnd(_)
TrimEnd(s) ==
  IF s # <<>> /\ IsWhitespace(s[Len(s)]) THEN TrimEnd(SubSeq(s, 1, Len(s) - 1)) ELSE s

\* String.prototype.trim
Trim(s) == TrimEnd(TrimStart(s))

\* String.prototype.startsWith
StartsWith(s, p) == Len(p) <= Len(s) /\ SubSeq(s, 1, Len(p)) = p

\* String.prototype.endsWith
EndsWith(s, e) == Len(e) <= Len(s) /\ SubSeq(s, Len(s) - Len(e) + 1, Len(s)) = e

\* -------------------------------------------------------------- path module

Sep == "/"

\* Index of the last separator of p at or before i, 0 when there is none.
RECURSIVE LastSepFrom(_, _)
LastSepFrom(p, i) ==
  IF i = 0 THEN 0 ELSE IF p[i] = Sep THEN i ELSE LastSepFrom(p, i - 1)

LastSep(p) == LastSepFrom(p, Len(p))

\* Trailing separators are not part of the last segment.
RECURSIVE StripTrailingSep(_)
StripTrailingSep(p) ==
  IF Len(p) > 1 /\ p[Len(p)] = Sep THEN StripTrailingSep(SubSeq(p, 1, Len(p) - 1)) ELSE p

\* path.basename(p)
Basename(p) ==
  LET q == StripTrailingSep(p)
  IN IF q = <<Sep>> THEN <<>> ELSE SubSeq(q, LastSep(q) + 1, Len(q))

\* path.basename(p, ext)
BasenameExt(p, ext) ==
  LET b == Basename(p)
  IN IF b # ext /\ EndsWith(b, ext) THEN SubSeq(b, 1, Len(b) - Len(ext)) ELSE b

\* path.dirname(p)
Dirname(p) ==
  LET q == StripTrailingSep(p)
      i == LastSep(q)
  IN IF i = 0 THEN <<".">> ELSE IF i = 1 THEN <<Sep>> ELSE StripTrailingSep(SubSeq(q, 1, i - 1))

\* The segments of p between separators, empty segments included.
RECURSIVE Segments(_)
Segments(p) ==
  LET i == LastSep(p)
  IN IF i = 0 THEN <<p>>
     ELSE Append(Segments(SubSeq(p, 1, i - 1)), SubSeq(p, i + 1, Len(p)))

RECURSIVE JoinSegments(_)
JoinSegments(segs) ==
  IF segs = <<>> THEN <<>>
  ELSE IF Len(segs) = 1 THEN segs[1]
  ELSE segs[1] \o <<Sep>> \o JoinSegments(Tail(segs))

\* A path path.normalize leaves as it is: no empty segment, no "." segment,
\* no trailing separator.
IsNormal(p) ==
  /\ p # <<>>
  /\ \A i \in 1..Len(p) :
        /\ (p[i] = Sep /\ i > 1) => (i < Len(p) /\ p[i + 1] # Sep)
        /\ p[i] = "." => ~( /\ (i = 1 \/ p[i - 1] = Sep)
                            /\ (i = Len(p) \/ p[i + 1] = Sep) )
  /\ (Len(p) > 1 /\ p[1] = Sep) => p[2] # Sep

\* path.normalize on the paths of the model: empty and "." segments are
\* dropped, an absolute path keeps its leading separator.
Normalize(p) ==
  IF IsNormal(p) THEN p
  ELSE LET abs  == p # <<>> /\ p[1] = Sep
           segs == SelectSeq(Segments(p), LAMBDA s : s # <<>> /\ s # <<".">>)
           body == JoinSegments(segs)
       IN IF abs THEN <<Sep>> \o body ELSE IF body = <<>> THEN <<".">> ELSE body

\* path.join(a, b)
PathJoin(a, b) == Normalize(IF a = <<>> THEN b ELSE a \o <<Sep>> \o b)

\* str.replace(/\.md$/, '.embedding')
ReplaceMdExt(p) ==
  IF EndsWith(p, <<".md">>) THEN SubSeq(p, 1, Len(p) - 1) \o <<".embedding">> ELSE p

\* path.win32.join(a, b): as path.join, with every separator a backslash.
WinSep == "\\"

\* Both separators are separators to path.win32; the result has backslashes.
ToPosix(x) == [i \in 1..Len(x) |-> IF x[i] = WinSep THEN Sep ELSE x[i]]
ToWin(x) == [i \in 1..Len(x) |-> IF x[i] = Sep THEN WinSep ELSE x[i]]

PathJoinWin(a, b) == ToWin(PathJoin(ToPosix(a), ToPosix(b)))

\* ---------------------------------------------------------------- config.ts

\* The registry file obsidian.json as getObsidianVaults finds it: whether it
\* can be read, whether its content parses as JSON, whether the document has
\* a usable vaults object, and the path field of each vault entry in
\* document order.
ConfigFile(readable, wellFormed, hasVaults, vaults) ==
  [readable |-> readable, wellFormed |-> wellFormed, hasVaults |-> hasVaults,
   vaults |-> vaults]

\* The empty object {}.
EmptyVaultMap == <<>>

\* The for-of loop of parseObsidianConfig: a later entry of the same name
\* replaces an earlier one.
RECURSIVE VaultMapOf(_)
VaultMapOf(entries) ==
  IF entries = <<>> THEN EmptyVaultMap
  ELSE LET n    == Len(entries)
           rest == VaultMapOf(SubSeq(entries, 1, n - 1))
           e    == entries[n]
       IN IF Truthy(e) THEN (Basename(e.val) :> e.val) @@ rest ELSE rest

\* A vault entry that is null: `vault.path` throws a TypeError.
NullEntry == [set |-> FALSE, val |-> <<"null">>]

parseObsidianConfig(doc) ==
  IF ~doc.wellFormed THEN EmptyVaultMap
  ELSE IF ~doc.hasVaults THEN EmptyVaultMap
  ELSE IF \E i \in 1..Len(doc.vaults) : doc.vaults[i] = NullEntry
  THEN EmptyVaultMap   \* the catch of the whole function
  ELSE VaultMapOf(doc.vaults)

getObsidianVaults(file) ==
  IF file.readable THEN parseObsidianConfig(file) ELSE EmptyVaultMap

\* Property names every object literal inherits from Object.prototype; the
\* value found under one of them is a function, truthy and not a string.
ObjectPrototypeKeys == {<<"constructor">>}

\* vaults[vaultName] on the object getObsidianVaults returns.
VaultLookup(vaults, name) ==
  IF name \in DOMAIN vaults THEN [kind |-> "string", val |-> vaults[name]]
  ELSE IF name \in ObjectPrototypeKeys THEN [kind |-> "inherited", val |-> <<>>]
  ELSE [kind |-> "undefined", val |-> <<>>]

isObsidianMode(env) ==
  LET vaultName == env.AGENTIC_JOURNAL_VAULT
  IN Truthy(vaultName) /\ Len(Trim(vaultName.val)) > 0

TmpDir == <<Sep, "tmp">>

\* resolveJournalPath('.private-journal', false) of paths.ts: the home
\* directory, or the temporary directory when there is none.
resolveJournalPath(env) ==
  PathJoin(IF Truthy(env.HOME) THEN env.HOME.val ELSE TmpDir, <<".private-journal">>)

\* The outcome of an async function: a value, or a thrown error.
Returned(path, warned) == [threw |-> FALSE, path |-> path, warned |-> warned]
Thrown == [threw |-> TRUE, path |-> <<>>, warned |-> FALSE]

\* getUserJournalPath from `const vaultPath = vaults[vaultName]` on.
UseVault(env, vaultPath) ==
  IF vaultPath.kind = "string" /\ vaultPath.val # <<>>
  THEN Returned(PathJoin(vaultPath.val, <<"agentic-journal">>), FALSE)
  ELSE IF vaultPath.kind = "inherited"
  THEN Thrown   \* path.join rejects a non-string argument
  ELSE Returned(resolveJournalPath(env), TRUE)

getUserJournalPath(env, file) ==
  IF Truthy(env.AGENTIC_JOURNAL_PATH) THEN Returned(env.AGENTIC_JOURNAL_PATH.val, FALSE)
  ELSE IF /\ Truthy(env.AGENTIC_JOURNAL_VAULT)
          /\ Len(Trim(env.AGENTIC_JOURNAL_VAULT.val)) > 0
  THEN UseVault(env, VaultLookup(getObsidianVaults(file), env.AGENTIC_JOURNAL_VAULT.val))
  ELSE Returned(resolveJournalPath(env), FALSE)

\* A variant of getEmbeddingCachePath with one cache directory per vault
\* name.
getEmbeddingCachePathPerVault(env) ==
  IF Truthy(env.LOCALAPPDATA)
  THEN PathJoinWin(env.LOCALAPPDATA.val,
                   <<"private-journal", Sep, "embeddings", Sep>>
                   \o env.AGENTIC_JOURNAL_VAULT.val)
  ELSE PathJoin(IF Truthy(env.HOME) THEN env.HOME.val ELSE TmpDir,
                <<".cache", Sep, "private-journal", Sep, "embeddings", Sep>>
                \o env.AGENTIC_JOURNAL_VAULT.val)

getEmbeddingCachePath(env) ==
  IF Truthy(env.LOCALAPPDATA)
  THEN PathJoinWin(env.LOCALAPPDATA.val, <<"private-journal", Sep, "embeddings">>)
  ELSE PathJoin(IF Truthy(env.HOME) THEN env.HOME.val ELSE TmpDir,
                <<".cache", Sep, "private-journal", Sep, "embeddings">>)

\* path.win32.join when LOCALAPPDATA is set, path.posix.join otherwise.
JoinCachePath(env, cachePath, name) ==
  IF Truthy(env.LOCALAPPDATA) THEN PathJoinWin(cachePath, name)
  ELSE PathJoin(cachePath, name)

\* A variant of getEmbeddingPathForFile that names the cache file after the
\* whole markdown path, the vault's directories included.
getEmbeddingPathForFileWithPrefix(env, mdPath, isUserJournal) ==
  IF isUserJournal /\ isObsidianMode(env)
  THEN JoinCachePath(env, getEmbeddingCachePath(env),
                     ReplaceMdExt([i \in 1..Len(mdPath) |->
                                     IF mdPath[i] = Sep THEN "--" ELSE mdPath[i]]))
  ELSE ReplaceMdExt(mdPath)

\* `${dateDir}--${filename}.embedding`
CacheFileName(mdPath) ==
  Basename(Dirname(mdPath)) \o <<"--">> \o BasenameExt(mdPath, <<".md">>)
  \o <<".embedding">>

getEmbeddingPathForFile(env, mdPath, isUserJournal) ==
  IF isUserJournal /\ isObsidianMode(env)
  THEN JoinCachePath(env, getEmbeddingCachePath(env), CacheFileName(mdPath))
  ELSE ReplaceMdExt(mdPath)

\* ------------------------------------------------------------ embeddings.ts

\* The markdown of an entry, by its parts: the metadata block (timestamp,
\* project, agent, tags) and the "## Title" sections in document order.
Markdown(timestamp, project, agent, tags, sections) ==
  [timestamp |-> timestamp, project |-> project, agent |-> agent,
   tags |-> tags, sections |-> sections]

RECURSIVE BodyText(_)
BodyText(sections) ==
  IF sections = <<>> THEN <<>>
  ELSE IF Len(sections) = 1 THEN sections[1].body
  ELSE sections[1].body \o <<"\n">> \o BodyText(Tail(sections))

\* extractSearchableText: the body without the metadata block and without
\* the section headers, and the section titles in document order.
extractSearchableText(content) ==
  [text |-> BodyText(content.sections),
   sections |-> [i \in 1..Len(content.sections) |-> content.sections[i].title]]

\* generateEmbedding: the model is a function of the text alone.
generateEmbedding(text) == <<"vector-of", text>>

EmbeddingData(embedding, text, sections, timestamp, path) ==
  [embedding |-> embedding, text |-> text, sections |-> sections,
   timestamp |-> timestamp, path |-> path]

\* A variant of WriteFile that leaves an existing file as it is.
WriteFileIfAbsent(fs, path, data) == fs @@ (path :> data)

\* fs.writeFile: create or replace.
WriteFile(fs, path, data) == (path :> data) @@ fs

Exists(fs, path) == path \in DOMAIN fs

\* saveEmbedding(filePath, embeddingData, isUserJournal), from the location
\* embeddingPath == getEmbeddingPathForFile(filePath, isUserJournal) on.
saveEmbedding(fs, embeddingPath, embeddingData) ==
  WriteFile(fs, embeddingPath, embeddingData)

\* loadEmbedding(filePath, isUserJournal): the record, or absent.
ReadEmbedding(fs, embeddingPath) ==
  IF Exists(fs, embeddingPath)
  THEN [found |-> TRUE, data |-> fs[embeddingPath]]
  ELSE [found |-> FALSE, data |-> <<>>]

loadEmbedding(fs, env, filePath, isUserJournal) ==
  ReadEmbedding(fs, getEmbeddingPathForFile(env, filePath, isUserJournal))

\* ---------------------------------------------------------------- journal.ts

\* A Date: the local calendar date, the local time of day to the second, and
\* the milliseconds.  getTime() is this value.
Timestamp(date, time, ms) == [date |-> date, time |-> time, ms |-> ms]

\* String(n).padStart(6, '0')
Pad6(n) ==
  IF n < 10 THEN "00000" \o ToString(n)
  ELSE IF n < 100 THEN "0000" \o ToString(n)
  ELSE IF n < 1000 THEN "000" \o ToString(n)
  ELSE IF n < 10000 THEN "00" \o ToString(n)
  ELSE IF n < 100000 THEN "0" \o ToString(n)
  ELSE ToString(n)

formatDate(timestamp) == <<timestamp.date>>

\* random is the value of Math.floor(Math.random() * 1000).
formatTimestamp(timestamp, random) ==
  <<timestamp.time, "-", Pad6(timestamp.ms * 1000 + random)>>

Section(title, body) == [title |-> title, body |-> body]

\* sections.push / tags.push for a field when it is truthy.
PushIf(seq, field, item) == IF Truthy(field) THEN Append(seq, item) ELSE seq

NoMetadata == [project |-> Unset, agent |-> Unset]

\* A variant of formatThoughts that tags a field whenever it was passed,
\* an empty string included, and prints a metadata line whenever the
\* metadata object has the field.
formatThoughtsTaggingPassedFields(thoughts, timestamp, metadata) ==
  LET s1 == PushIf(<<>>, thoughts.feelings, Section("Feelings", thoughts.feelings.val))
      s2 == PushIf(s1, thoughts.project_notes,
                   Section("Project Notes", thoughts.project_notes.val))
      s3 == PushIf(s2, thoughts.user_context,
                   Section("User Context", thoughts.user_context.val))
      s4 == PushIf(s3, thoughts.technical_insights,
                   Section("Technical Insights", thoughts.technical_insights.val))
      s5 == PushIf(s4, thoughts.world_knowledge,
                   Section("World Knowledge", thoughts.world_knowledge.val))
      tag(seq, field, t) == IF field.set THEN Append(seq, t) ELSE seq
      t1 == tag(<<"agentic-journal">>, thoughts.feelings, "feelings")
      t2 == tag(t1, thoughts.project_notes, "project-notes")
      t3 == tag(t2, thoughts.user_context, "user-context")
      t4 == tag(t3, thoughts.technical_insights, "technical-insights")
      t5 == tag(t4, thoughts.world_knowledge, "world-knowledge")
  IN Markdown(timestamp, metadata.project, metadata.agent, t5, s5)

formatThoughts(thoughts, timestamp, metadata) ==
  LET s1 == PushIf(<<>>, thoughts.feelings, Section("Feelings", thoughts.feelings.val))
      s2 == PushIf(s1, thoughts.project_notes,
                   Section("Project Notes", thoughts.project_notes.val))
      s3 == PushIf(s2, thoughts.user_context,
                   Section("User Context", thoughts.user_context.val))
      s4 == PushIf(s3, thoughts.technical_insights,
                   Section("Technical Insights", thoughts.technical_insights.val))
      s5 == PushIf(s4, thoughts.world_knowledge,
                   Section("World Knowledge", thoughts.world_knowledge.val))
      t1 == PushIf(<<"agentic-journal">>, thoughts.feelings, "feelings")
      t2 == PushIf(t1, thoughts.project_notes, "project-notes")
      t3 == PushIf(t2, thoughts.user_context, "user-context")
      t4 == PushIf(t3, thoughts.technical_insights, "technical-insights")
      t5 == PushIf(t4, thoughts.world_knowledge, "world-knowledge")
  IN Markdown(timestamp,
              IF Truthy(metadata.project) THEN metadata.project ELSE Unset,
              IF Truthy(metadata.agent) THEN metadata.agent ELSE Unset,
              t5, s5)

\* new JournalManager(projectJournalPath, userJournalPath?)
JournalManager(projectJournalPath, userJournalPath) ==
  [projectJournalPath |-> projectJournalPath,
   explicitUserPath |-> userJournalPath,
   userJournalPath |-> Unset,
   userJournalPathPromise |-> [state |-> "null", path |-> <<>>]]

\* The promise `this.userJournalPathPromise = getUserJournalPath()` creates.
PromiseOf(r) ==
  IF r.threw THEN [state |-> "rejected", path |-> <<>>]
  ELSE [state |-> "fulfilled", path |-> r.path]

\* `this.userJournalPath = await this.userJournalPathPromise`
Await(m, promise) ==
  IF promise.state = "rejected"
  THEN [mgr |-> [m EXCEPT !.userJournalPathPromise = promise],
        threw |-> TRUE, path |-> <<>>]
  ELSE [mgr |-> [m EXCEPT !.userJournalPathPromise = promise,
                          !.userJournalPath = Str(promise.path)],
        threw |-> FALSE, path |-> promise.path]

\* resolveUserJournalPath: the manager afterwards, and the path or the error.
resolveUserJournalPath(m, env, file) ==
  IF Truthy(m.userJournalPath)
  THEN [mgr |-> m, threw |-> FALSE, path |-> m.userJournalPath.val]
  ELSE IF m.userJournalPathPromise.state = "null" /\ Truthy(m.explicitUserPath)
  THEN [mgr |-> [m EXCEPT !.userJournalPath = m.explicitUserPath],
        threw |-> FALSE, path |-> m.explicitUserPath.val]
  ELSE IF m.userJournalPathPromise.state = "null"
  THEN Await(m, PromiseOf(getUserJournalPath(env, file)))
  ELSE Await(m, m.userJournalPathPromise)

\* The instance and the filesystem, as the steps of one call pass them on.
World(m, f, d) == [mgr |-> m, fs |-> f, dirs |-> d]

\* A point of a call where the environment can make a step fail: the
\* destination it is for and the step.
Fault(dest, step) == <<dest, step>>

\* generateEmbeddingForEntry from `await this.embeddingService.saveEmbedding`
\* on; savedAt is where the embedding was persisted, modelCalled whether
\* generateEmbedding was called.
SaveAt(w, embeddingPath, embeddingData) ==
  [w |-> [w EXCEPT !.fs = saveEmbedding(w.fs, embeddingPath, embeddingData)],
   savedAt |-> Str(embeddingPath), modelCalled |-> TRUE]

\* A variant of SaveUnder whose record names the embedding file, not the
\* markdown file, in its path field.
SaveUnderNamingEmbedding(r, w, env, filePath, embeddingData, faults, dest) ==
  IF r.threw \/ Fault(dest, "save") \in faults
  THEN [w |-> [w EXCEPT !.mgr = r.mgr], savedAt |-> Unset, modelCalled |-> TRUE]
  ELSE SaveAt([w EXCEPT !.mgr = r.mgr],
              getEmbeddingPathForFile(env, filePath, StartsWith(filePath, r.path)),
              [embeddingData EXCEPT
                 !.path = getEmbeddingPathForFile(env, filePath,
                                                  StartsWith(filePath, r.path))])

\* generateEmbeddingForEntry from `const userPath = await
\* this.resolveUserJournalPath()` on; r is what the resolution gave.
SaveUnder(r, w, env, filePath, embeddingData, faults, dest) ==
  IF r.threw \/ Fault(dest, "save") \in faults
  THEN [w |-> [w EXCEPT !.mgr = r.mgr], savedAt |-> Unset, modelCalled |-> TRUE]
  ELSE SaveAt([w EXCEPT !.mgr = r.mgr],
              getEmbeddingPathForFile(env, filePath, StartsWith(filePath, r.path)),
              embeddingData)

\* A variant of EmbedText that skips the empty string only, not a text of
\* whitespace.
EmbedTextUntrimmed(ex, w, env, file, filePath, timestamp, faults, dest) ==
  IF Len(ex.text) = 0 THEN [w |-> w, savedAt |-> Unset, modelCalled |-> FALSE]
  ELSE SaveUnder(resolveUserJournalPath(w.mgr, env, file), w, env, filePath,
                 EmbeddingData(generateEmbedding(ex.text), ex.text, ex.sections,
                               timestamp, filePath),
                 faults, dest)

\* generateEmbeddingForEntry from `if (!text || text.trim().length === 0)` on;
\* ex is what extractSearchableText gave.
EmbedText(ex, w, env, file, filePath, timestamp, faults, dest) ==
  IF Len(Trim(ex.text)) = 0 THEN [w |-> w, savedAt |-> Unset, modelCalled |-> FALSE]
  ELSE SaveUnder(resolveUserJournalPath(w.mgr, env, file), w, env, filePath,
                 EmbeddingData(generateEmbedding(ex.text), ex.text, ex.sections,
                               timestamp, filePath),
                 faults, dest)

\* generateEmbeddingForEntry: everything in its try block; any failure is
\* caught.  The fault "embed" is extractSearchableText or generateEmbedding
\* throwing, the fault "save" is saveEmbedding throwing: generateEmbedding
\* throwing when the text reaches it, extractSearchableText otherwise.
generateEmbeddingForEntry(w, env, file, filePath, content, timestamp, faults, dest) ==
  IF Fault(dest, "embed") \in faults
  THEN [w |-> w, savedAt |-> Unset,
        modelCalled |-> Len(Trim(extractSearchableText(content).text)) > 0]
  ELSE EmbedText(extractSearchableText(content), w, env, file, filePath, timestamp,
                 faults, dest)

\* What one destination of a write call did: the markdown file, its content,
\* where its embedding went, and whether the model was called for it.
Entry(dest, path, content, g) ==
  [dest |-> dest, path |-> path, content |-> content, savedAt |-> g.savedAt,
   modelCalled |-> g.modelCalled]

\* What writeThoughtsToLocation leaves once generateEmbeddingForEntry gave g.
Written(g, dest, filePath, formatted) ==
  [w |-> g.w, threw |-> FALSE, cause |-> "none",
   entries |-> <<Entry(dest, filePath, formatted, g)>>]

\* A variant of WriteEntry that logs a failed directory creation or a failed
\* markdown write and goes on as generateEmbeddingForEntry does with its
\* failures.
WriteEntryLoggingFailures(w, env, file, dayDirectory, filePath, formatted, timestamp, faults, dest) ==
  IF dayDirectory \notin w.dirs /\ Fault(dest, "mkdir") \in faults
  THEN [w |-> w, threw |-> FALSE, cause |-> "none", entries |-> <<>>]
  ELSE IF Fault(dest, "write") \in faults
  THEN Written(generateEmbeddingForEntry(
                 [w EXCEPT !.dirs = @ \cup {dayDirectory}],
                 env, file, filePath, formatted, timestamp, faults, dest),
               dest, filePath, formatted)
  ELSE Written(generateEmbeddingForEntry(
                 [w EXCEPT !.dirs = @ \cup {dayDirectory},
                           !.fs = WriteFile(@, filePath, formatted)],
                 env, file, filePath, formatted, timestamp, faults, dest),
               dest, filePath, formatted)

\* A variant of WriteEntry that generates the embedding before it writes the
\* markdown file.
WriteEntryEmbeddingFirst(w, env, file, dayDirectory, filePath, formatted, timestamp, faults, dest) ==
  IF dayDirectory \notin w.dirs /\ Fault(dest, "mkdir") \in faults
  THEN [w |-> w, threw |-> TRUE, cause |-> "mkdir", entries |-> <<>>]
  ELSE IF Fault(dest, "write") \in faults
  THEN [w |-> generateEmbeddingForEntry(
                [w EXCEPT !.dirs = @ \cup {dayDirectory}],
                env, file, filePath, formatted, timestamp, faults, dest).w,
        threw |-> TRUE, cause |-> "write", entries |-> <<>>]
  ELSE Written(generateEmbeddingForEntry(
                 [w EXCEPT !.dirs = @ \cup {dayDirectory},
                           !.fs = WriteFile(@, filePath, formatted)],
                 env, file, filePath, formatted, timestamp, faults, dest),
               dest, filePath, formatted)

\* writeThoughtsToLocation from `await this.ensureDirectoryExists(dayDirectory)`
\* on; ensureDirectoryExists creates the day directory only when fs.access
\* finds none.
WriteEntry(w, env, file, dayDirectory, filePath, formatted, timestamp, faults, dest) ==
  IF dayDirectory \notin w.dirs /\ Fault(dest, "mkdir") \in faults
  THEN [w |-> w, threw |-> TRUE, cause |-> "mkdir", entries |-> <<>>]
  ELSE IF Fault(dest, "write") \in faults
  THEN [w |-> [w EXCEPT !.dirs = @ \cup {dayDirectory}],
        threw |-> TRUE, cause |-> "write", entries |-> <<>>]
  ELSE Written(generateEmbeddingForEntry(
                 [w EXCEPT !.dirs = @ \cup {dayDirectory},
                           !.fs = WriteFile(@, filePath, formatted)],
                 env, file, filePath, formatted, timestamp, faults, dest),
               dest, filePath, formatted)

\* writeThoughtsToLocation from `const filePath = path.join(dayDirectory,
\* fileName)` on.
WriteInDirectory(w, env, file, thoughts, timestamp, dayDirectory, fileName, metadata, faults, dest) ==
  WriteEntry(w, env, file, dayDirectory, PathJoin(dayDirectory, fileName),
             formatThoughts(thoughts, timestamp, metadata), timestamp, faults, dest)

writeThoughtsToLocation(w, env, file, thoughts, timestamp, basePath, metadata, random, faults, dest) ==
  WriteInDirectory(w, env, file, thoughts, timestamp,
                   PathJoin(basePath, formatDate(timestamp)),
                   formatTimestamp(timestamp, random) \o <<".md">>,
                   metadata, faults, dest)

\* The entries of both destinations, in the order they were written.
Both(p, u) == [u EXCEPT !.entries = p.entries \o u.entries]

\* writeThoughts from `const userPath = await this.resolveUserJournalPath()`
\* on; p is what the project destination left, r what the resolution gave.
WriteUser(r, p, env, file, userThoughts, metadata, timestamp, randomU, faults) ==
  IF r.threw
  THEN [w |-> [p.w EXCEPT !.mgr = r.mgr], threw |-> TRUE, cause |-> "resolve",
        entries |-> p.entries]
  ELSE Both(p, writeThoughtsToLocation([p.w EXCEPT !.mgr = r.mgr], env, file,
                                       userThoughts, timestamp, r.path, metadata,
                                       randomU, faults, "user"))

\* A variant of WriteUserPart that writes the user destination although the
\* project destination failed.
WriteUserPartRegardless(p, env, file, userThoughts, metadata, timestamp, randomU, faults) ==
  IF ~( \/ userThoughts.feelings.set
        \/ userThoughts.user_context.set
        \/ userThoughts.technical_insights.set
        \/ userThoughts.world_knowledge.set )
  THEN p
  ELSE WriteUser(resolveUserJournalPath(p.w.mgr, env, file), p, env, file,
                 userThoughts, metadata, timestamp, randomU, faults)

\* writeThoughts from `const hasUserContent = ...` on.
WriteUserPart(p, env, file, userThoughts, metadata, timestamp, randomU, faults) ==
  IF \/ p.threw
     \/ ~( \/ userThoughts.feelings.set
           \/ userThoughts.user_context.set
           \/ userThoughts.technical_insights.set
           \/ userThoughts.world_knowledge.set )
  THEN p
  ELSE WriteUser(resolveUserJournalPath(p.w.mgr, env, file), p, env, file,
                 userThoughts, metadata, timestamp, randomU, faults)

\* const projectThoughts = { project_notes: thoughts.project_notes }
ProjectThoughts(thoughts) ==
  [feelings |-> Unset, project_notes |-> thoughts.project_notes,
   user_context |-> Unset, technical_insights |-> Unset, world_knowledge |-> Unset]

\* writeThoughts: the project destination, then the user destination.
writeThoughts(w, env, file, thoughts, metadata, timestamp, randomP, randomU, faults) ==
  WriteUserPart(
    IF Truthy(thoughts.project_notes)
    THEN writeThoughtsToLocation(w, env, file, ProjectThoughts(thoughts), timestamp,
                                 w.mgr.projectJournalPath, metadata, randomP, faults,
                                 "project")
    ELSE [w |-> w, threw |-> FALSE, cause |-> "none", entries |-> <<>>],
    env, file, [thoughts EXCEPT !.project_notes = Unset], metadata, timestamp,
    randomU, faults)

\* The atoms that stand for strings matching \d{4}-\d{2}-\d{2}, \d{2}-\d{2}-\d{2}
\* and the milliseconds of the clock.
DateTokens == {"2025-12-22"}
TimeTokens == {"14-30-45"}
ClockMs == {123}
\* The values of Math.floor(Math.random() * 1000) the model draws.
RandomValues == {7}

\* The atoms that stand for strings of six digits.
SixDigitTokens == {Pad6(ms * 1000 + r) : ms \in ClockMs, r \in RandomValues}

\* dayDir.match(/^\d{4}-\d{2}-\d{2}$/)
MatchesDate(name) == Len(name) = 1 /\ name[1] \in DateTokens

\* filename.match(/^(\d{2})-(\d{2})-(\d{2})-\d{6}$/)
MatchesTime(name) ==
  Len(name) = 3 /\ name[1] \in TimeTokens /\ name[2] = "-" /\ name[3] \in SixDigitTokens

\* extractTimestampFromPath from `const match = filename.match(...)` on.
TimestampFromNames(filename, dirName) ==
  IF ~MatchesTime(filename) THEN [null |-> TRUE, date |-> Timestamp("", "", 0)]
  ELSE IF ~MatchesDate(dirName) THEN [null |-> TRUE, date |-> Timestamp("", "", 0)]
  ELSE [null |-> FALSE, date |-> Timestamp(dirName[1], filename[1], 0)]

\* extractTimestampFromPath: the Date of the path's date and time of day, or
\* null.
extractTimestampFromPath(filePath) ==
  TimestampFromNames(BasenameExt(filePath, <<".md">>), Basename(Dirname(filePath)))

\* A variant of OrNow that stamps the time of the scan.
ScanTime(t, now) == now

\* this.extractTimestampFromPath(mdPath) || new Date()
OrNow(t, now) == IF t.null THEN now ELSE t.date

\* The date directories of basePath and their markdown files, as the two
\* readdir loops find them; base is the normal form of basePath.
MarkdownUnder(fs, base) ==
  {p \in DOMAIN fs :
     /\ EndsWith(p, <<".md">>)
     /\ MatchesDate(Basename(Dirname(p)))
     /\ Dirname(Dirname(p)) = base}

\* The markdown files the scan of basePath visits: those in a directory of
\* basePath whose name matches the date pattern.
ScannedMarkdown(fs, basePath) == MarkdownUnder(fs, Normalize(basePath))

\* The order of a directory listing.  No two markdown files of one root share
\* an embedding location, so the order within a root does not show.
RECURSIVE Listing(_)
Listing(S) ==
  IF S = {} THEN <<>>
  ELSE LET x == CHOOSE x \in S : TRUE IN <<x>> \o Listing(S \ {x})

\* The loop body once generateEmbeddingForEntry gave g.
Regenerated(acc, mdPath, g) ==
  [acc EXCEPT !.w = g.w,
              !.count = @ + 1,
              !.regenerated = @ \cup {mdPath},
              !.persisted = @ \cup (IF g.savedAt.set THEN {mdPath} ELSE {})]

\* The loop body for one markdown file.
ScanFile(acc, env, file, mdPath, now, faults, dest) ==
  IF Exists(acc.w.fs, ReplaceMdExt(mdPath))
  THEN [acc EXCEPT !.skipped = @ \cup {mdPath}]
  ELSE Regenerated(acc, mdPath,
                   generateEmbeddingForEntry(acc.w, env, file, mdPath, acc.w.fs[mdPath],
                                             OrNow(extractTimestampFromPath(mdPath), now),
                                             faults, dest))

\* The markdown files the loops of one root come to; the fault "readdir" is
\* fs.readdir(basePath) rejecting with an error other than ENOENT, the fault
\* "read" is fs.readFile(mdPath) rejecting.  A root that does not exist
\* rejects with ENOENT and has no file.
ListRoot(fs, basePath, faults, dest) ==
  IF Fault(dest, "readdir") \in faults THEN <<>>
  ELSE Listing(ScannedMarkdown(fs, basePath))

\* The loop over the markdown files of one root.
RECURSIVE ScanFiles(_, _, _, _, _, _, _)
ScanFiles(acc, env, file, mdFiles, now, faults, dest) ==
  IF mdFiles = <<>> THEN acc
  ELSE IF /\ Fault(dest, "read") \in faults
          /\ ~Exists(acc.w.fs, ReplaceMdExt(Head(mdFiles)))
  THEN acc   \* fs.readFile rejects: the catch of this root ends its scan
  ELSE ScanFiles(ScanFile(acc, env, file, Head(mdFiles), now, faults, dest),
                 env, file, Tail(mdFiles), now, faults, dest)

\* generateMissingEmbeddings from the second `for (const basePath of paths)`
\* iteration on.
ScanUserRoot(accP, userPath, env, file, now, faults) ==
  ScanFiles(accP, env, file, ListRoot(accP.w.fs, userPath, faults, "user"), now,
            faults, "user")
  @@ [threw |-> FALSE, cause |-> "none"]

\* A variant of ScanRoots with one try block around the loop over both
\* roots: an error while scanning the project root ends the scan.
ScanRootsInOneTry(r, w, env, file, now, faults) ==
  IF r.threw
  THEN [w |-> [w EXCEPT !.mgr = r.mgr], count |-> 0, skipped |-> {},
        regenerated |-> {}, persisted |-> {}, threw |-> TRUE, cause |-> "resolve"]
  ELSE IF \E step \in {"readdir", "read"} : Fault("project", step) \in faults
  THEN ScanFiles([w |-> [w EXCEPT !.mgr = r.mgr], count |-> 0, skipped |-> {},
                  regenerated |-> {}, persisted |-> {}],
                 env, file,
                 ListRoot(w.fs, w.mgr.projectJournalPath, faults, "project"),
                 now, faults, "project")
       @@ [threw |-> FALSE, cause |-> "none"]
  ELSE ScanUserRoot(
         ScanFiles([w |-> [w EXCEPT !.mgr = r.mgr], count |-> 0, skipped |-> {},
                    regenerated |-> {}, persisted |-> {}],
                   env, file,
                   ListRoot(w.fs, w.mgr.projectJournalPath, faults, "project"),
                   now, faults, "project"),
         r.path, env, file, now, faults)

\* generateMissingEmbeddings from `const paths = [...]` on; r is what the
\* resolution gave.
ScanRoots(r, w, env, file, now, faults) ==
  IF r.threw
  THEN [w |-> [w EXCEPT !.mgr = r.mgr], count |-> 0, skipped |-> {},
        regenerated |-> {}, persisted |-> {}, threw |-> TRUE, cause |-> "resolve"]
  ELSE ScanUserRoot(
         ScanFiles([w |-> [w EXCEPT !.mgr = r.mgr], count |-> 0, skipped |-> {},
                    regenerated |-> {}, persisted |-> {}],
                   env, file,
                   ListRoot(w.fs, w.mgr.projectJournalPath, faults, "project"),
                   now, faults, "project"),
         r.path, env, file, now, faults)

\* generateMissingEmbeddings: the project root, then the user root.
generateMissingEmbeddings(w, env, file, now, faults) ==
  ScanRoots(resolveUserJournalPath(w.mgr, env, file), w, env, file, now, faults)

\* --------------------------------------------------------------- search.ts

\* The similarity scores of the model, as ranks: a higher number is a higher
\* cosine similarity.
Scores == {0, 1, 2}

\* The texts the entries of SpecSearch have, and cosineSimilarity of the
\* query's vector with the vector of each: the vector is a function of the
\* text, so the score is.
SearchTexts == {<<"react">>, <<"js">>}
Scorings == [SearchTexts -> Scores]

\* The embedding files of the date directories of a root, in the order of
\* the walk.
EmbeddingsUnder(fs, base) ==
  {p \in DOMAIN fs :
     /\ EndsWith(p, <<".embedding">>)
     /\ MatchesDate(Basename(Dirname(p)))
     /\ Dirname(Dirname(p)) = base}

\* The embedding files of the flattened cache directory.
EmbeddingsIn(fs, directory) ==
  {p \in DOMAIN fs : EndsWith(p, <<".embedding">>) /\ Dirname(p) = directory}

\* The embedding files search loads for the user root.
UserEmbeddings(fs, env, userPath) ==
  IF isObsidianMode(env) THEN EmbeddingsIn(fs, getEmbeddingCachePath(env))
  ELSE EmbeddingsUnder(fs, Normalize(userPath))

\* One result: the record's text, section tags and source path, the root
\* type and the score.
SearchResult(record, type, score) ==
  [text |-> record.text, sections |-> record.sections, type |-> type,
   score |-> score, path |-> record.path]

\* The records of one root, scored.
RootResults(fs, files, type, scoring) ==
  [i \in 1..Len(files) |->
     SearchResult(fs[files[i]], type, scoring[fs[files[i]].text])]

\* The records of every root the filter does not exclude, in discovery
\* order: the project root, then the user root.
loadAllEmbeddings(fs, env, projectPath, userPath, type, scoring) ==
  (IF type \in {"both", "project"}
   THEN RootResults(fs, Listing(EmbeddingsUnder(fs, Normalize(projectPath))),
                    "project", scoring)
   ELSE <<>>)
  \o (IF type \in {"both", "user"}
      THEN RootResults(fs, Listing(UserEmbeddings(fs, env, userPath)), "user", scoring)
      ELSE <<>>)

\* A stable sort, descending by score: r goes behind every result of at
\* least its score.
RECURSIVE InsertByScore(_, _)
InsertByScore(sorted, r) ==
  IF sorted = <<>> THEN <<r>>
  ELSE IF Head(sorted).score >= r.score
  THEN <<Head(sorted)>> \o InsertByScore(Tail(sorted), r)
  ELSE <<r>> \o sorted

RECURSIVE SortByScore(_)
SortByScore(results) ==
  IF results = <<>> THEN <<>>
  ELSE InsertByScore(SortByScore(SubSeq(results, 1, Len(results) - 1)),
                     results[Len(results)])

\* search(query, {type}): the ranking; scoring is the similarity of the
\* query with each text.
search(fs, env, projectPath, userPath, type, scoring) ==
  SortByScore(loadAllEmbeddings(fs, env, projectPath, userPath, type, scoring))

\* The user root of the search service: the path the server was started
\* with, or the resolution of the fallback chain.
SearchUserRoot(m, env, file) ==
  IF Truthy(m.explicitUserPath) THEN Returned(m.explicitUserPath.val, FALSE)
  ELSE getUserJournalPath(env, file)

\* ------------------------------------------------------------------- state

VARIABLES
  env,       \* process.env: the variables the code reads
  registry,  \* the registry file obsidian.json
  mgr,       \* the JournalManager instance
  fs,        \* the files: path -> content (markdown or embedding record)
  dirs,      \* the day directories that exist
  envChanges, \* how often the environment has changed
  last,      \* what the last call did and returned
  calls,     \* the resolveUserJournalPath calls in flight
  race       \* a write and a reconciliation in flight at the same time

vars == <<env, registry, mgr, fs, dirs, envChanges, last, calls, race>>

Environment(journalPath, vault, localAppData, home) ==
  [AGENTIC_JOURNAL_PATH |-> journalPath, AGENTIC_JOURNAL_VAULT |-> vault,
   LOCALAPPDATA |-> localAppData, HOME |-> home]

\* The values the model draws the inputs from.
HomeDir == <<Sep, "home">>
VaultDir == <<Sep, "vault", Sep, "macbeth">>
OverrideDir == <<Sep, "u">>
JournalPathValues == {Unset}
VaultValues == {Unset, Str(<<"macbeth">>), Str(<<"ghost">>), Str(<<"constructor">>)}
Registries == {ConfigFile(TRUE, TRUE, TRUE, <<Str(VaultDir)>>)}
\* The constructor arguments: a project root apart from every user root
\* without and with a user path, and a project root below the user path.
ProjectDir == <<Sep, "p">>
NestedProjectDir == <<Sep, "u", Sep, "p">>
Managers ==
  { JournalManager(ProjectDir, Unset),
    JournalManager(ProjectDir, Str(OverrideDir)),
    JournalManager(NestedProjectDir, Str(OverrideDir)) }

Environments ==
  {Environment(p, v, Unset, Str(HomeDir)) : p \in JournalPathValues, v \in VaultValues}

Thoughts(feelings, project_notes, user_context, technical_insights, world_knowledge) ==
  [feelings |-> feelings, project_notes |-> project_notes,
   user_context |-> user_context, technical_insights |-> technical_insights,
   world_knowledge |-> world_knowledge]

NoThoughts == Thoughts(Unset, Unset, Unset, Unset, Unset)
Word == Str(<<"w">>)

\* The arguments of the write calls of the model.
WriteInputs ==
  { [thoughts |-> Thoughts(Word, Unset, Unset, Unset, Unset), metadata |-> NoMetadata],
    [thoughts |-> Thoughts(Unset, Word, Unset, Unset, Unset), metadata |-> NoMetadata],
    [thoughts |-> Thoughts(Word, Word, Unset, Unset, Unset), metadata |-> NoMetadata],
    [thoughts |-> Thoughts(Str(<<>>), Unset, Unset, Unset, Unset), metadata |-> NoMetadata],
    [thoughts |-> Thoughts(Unset, Str(<<>>), Unset, Unset, Unset), metadata |-> NoMetadata],
    [thoughts |-> NoThoughts, metadata |-> NoMetadata] }

\* The steps of a call the environment can make fail, one at most per call.
WriteSteps == {"mkdir", "write", "embed", "save"}
EmbeddingSteps == {"embed", "save"}
ScanSteps == {"readdir", "read"}
NoFaults == {{}}
FaultSets(dests, steps) == {{}} \cup {{Fault(d, s)} : d \in dests, s \in steps}

Clock == {Timestamp(d, t, ms) : d \in DateTokens, t \in TimeTokens, ms \in ClockMs}

\* new Date() in generateMissingEmbeddings: the scan runs when an entry was
\* written, or on a later day.
ScanClock == Clock \cup {Timestamp("2025-12-23", "09-15-00", 456)}

MarkdownFiles(f) == {p \in DOMAIN f : EndsWith(p, <<".md">>)}

\* The record of a call: the operation, its argument, whether it threw and at
\* which step, whether a fault was injected, and per operation what it did.
\* embedded is the set of scanned markdown files that had an embedding at
\* their policy location when the reconciliation began.
NoCall ==
  [op |-> "none", input |-> NoThoughts, metadata |-> NoMetadata,
   threw |-> FALSE, cause |-> "none", faulted |-> FALSE, faults |-> {}, entries |-> <<>>, count |-> 0, skipped |-> {},
   regenerated |-> {}, persisted |-> {}, embedded |-> {}]

\* The calls of resolveUserJournalPath in flight: where each is (idle, at
\* the await, returned, threw), the path it returned, how often
\* getUserJournalPath() was called, and process.env as it was then.
Callers == 1..MaxCallers
NoCalls ==
  [pc |-> [c \in Callers |-> "idle"], path |-> [c \in Callers |-> <<>>],
   resolutions |-> 0, captured |-> Environment(Unset, Unset, Unset, Unset)]

\* A writeThoughts call and a generateMissingEmbeddings call in flight:
\* where the writer is (idle, embedding: the markdown file is written, done,
\* threw) with the destination, path, content and timestamp of its entry,
\* and where the scan is (idle, check: before fs.access of the head of the
\* files still to visit, regenerate: after fs.access rejected, done, threw)
\* with the root it is in; observed is whether fs.access rejected for the
\* writer's file while the writer had not saved its embedding.
NoRace ==
  [writer |-> "idle", dest |-> "none", filePath |-> <<>>,
   content |-> Markdown(Timestamp("", "", 0), Unset, Unset, <<>>, <<>>),
   timestamp |-> Timestamp("", "", 0),
   scanner |-> "idle", root |-> "none", queue |-> <<>>, observed |-> FALSE]

Init ==
  /\ env \in Environments
  /\ registry \in Registries
  /\ mgr \in Managers
  /\ fs = <<>>
  /\ dirs = {}
  /\ envChanges = 0
  /\ last = NoCall
  /\ calls = NoCalls
  /\ race = NoRace

\* ----------------------------------------------------------------- actions

\* The destinations a write call with these thoughts has.
Destinations(thoughts) ==
  (IF Truthy(thoughts.project_notes) THEN {"project"} ELSE {})
  \cup (IF \/ thoughts.feelings.set \/ thoughts.user_context.set
           \/ thoughts.technical_insights.set \/ thoughts.world_knowledge.set
        THEN {"user"} ELSE {})

\* journalManager.writeThoughts(thoughts, metadata), the environment making
\* the steps of one of the fault sets fail.
\* The state once the call returned or threw; r is what writeThoughts left.
WriteReturns(r, in, faults) ==
  /\ Cardinality(MarkdownFiles(r.w.fs)) <= MaxMd
  /\ mgr' = r.w.mgr
  /\ fs' = r.w.fs
  /\ dirs' = r.w.dirs
  /\ last' = [NoCall EXCEPT !.op = "write", !.input = in.thoughts,
                            !.metadata = in.metadata, !.threw = r.threw,
                            !.cause = r.cause, !.faulted = (faults # {}),
                            !.faults = faults,
                            !.entries = r.entries]
  /\ UNCHANGED <<race, calls, env, registry, envChanges>>

WriteCall(in, now, randomP, randomU, faults) ==
  WriteReturns(writeThoughts(World(mgr, fs, dirs), env, registry, in.thoughts,
                             in.metadata, now, randomP, randomU, faults),
               in, faults)

\* The random suffixes a call draws: one per destination it has.
RandomFor(in, dest) ==
  IF dest \in Destinations(in.thoughts) THEN RandomValues
  ELSE {CHOOSE v \in RandomValues : TRUE}

WriteThoughts ==
  \E in \in WriteInputs, now \in Clock :
    \E randomP \in RandomFor(in, "project"), randomU \in RandomFor(in, "user") :
      WriteCall(in, now, randomP, randomU, {})

\* The markdown files of the two roots that have an embedding where
\* getEmbeddingPathForFile places it for the root they are in.
EmbeddedAtPolicyLocation(f, e, projectPath, userPath) ==
  {md \in ScannedMarkdown(f, projectPath) :
     Exists(f, getEmbeddingPathForFile(e, md, FALSE))}
  \cup {md \in ScannedMarkdown(f, userPath) :
          Exists(f, getEmbeddingPathForFile(e, md, TRUE))}

\* journalManager.generateMissingEmbeddings()
\* The state once the call returned or threw; r is what
\* generateMissingEmbeddings left, and embedded the files that had their
\* embedding at the policy's location when the call began.
ReconcileReturns(r, faults) ==
  /\ mgr' = r.w.mgr
  /\ fs' = r.w.fs
  /\ dirs' = r.w.dirs
  /\ last' = [NoCall EXCEPT !.op = "reconcile", !.threw = r.threw,
                            !.cause = r.cause, !.faulted = (faults # {}),
                            !.faults = faults,
                            !.count = r.count, !.skipped = r.skipped,
                            !.regenerated = r.regenerated,
                            !.persisted = r.persisted,
                            !.embedded =
                              IF r.threw THEN {}
                              ELSE EmbeddedAtPolicyLocation(
                                     fs, env, mgr.projectJournalPath,
                                     r.w.mgr.userJournalPath.val)]
  /\ UNCHANGED <<race, calls, env, registry, envChanges>>

ReconcileCall(now, faults) ==
  ReconcileReturns(generateMissingEmbeddings(World(mgr, fs, dirs), env, registry, now,
                                             faults),
                   faults)

GenerateMissingEmbeddings == \E now \in ScanClock : ReconcileCall(now, {})

\* process.env changes while the instance lives.
ChangeEnvironment ==
  \E e \in Environments \ {env} :
    /\ envChanges < MaxEnvChanges
    /\ envChanges' = envChanges + 1
    /\ env' = e
    /\ last' = NoCall
    /\ UNCHANGED <<race, calls, registry, mgr, fs, dirs>>

\* The sync mechanism delivers an entry another machine wrote into the
\* user root: the markdown file, without an embedding.
Delivered(dayDirectory, filePath, content) ==
  /\ ~Exists(fs, filePath)
  /\ Cardinality(MarkdownFiles(fs)) < MaxMd
  /\ fs' = WriteFile(fs, filePath, content)
  /\ dirs' = dirs \cup {dayDirectory}
  /\ last' = NoCall
  /\ UNCHANGED <<race, calls, env, registry, mgr, envChanges>>

DeliveredInto(dayDirectory, fileName, content) ==
  Delivered(dayDirectory, PathJoin(dayDirectory, fileName), content)

DeliveredUnder(r, now, random) ==
  /\ ~r.threw
  /\ DeliveredInto(PathJoin(r.path, formatDate(now)),
                   formatTimestamp(now, random) \o <<".md">>,
                   formatThoughts(Thoughts(Word, Unset, Unset, Unset, Unset), now,
                                  NoMetadata))

SyncArrives ==
  \E now \in Clock, random \in RandomValues :
    DeliveredUnder(getUserJournalPath(env, registry), now, random)

\* The calls of a process whose filesystem and embedding model do not fail.
Next ==
  \/ WriteThoughts
  \/ GenerateMissingEmbeddings
  \/ ChangeEnvironment
  \/ SyncArrives

Spec == Init /\ [][Next]_vars

\* The same calls with one step of a call failing, in a process whose
\* project root lies apart from its user root.
InitFaults ==
  /\ Init
  /\ mgr = JournalManager(ProjectDir, Unset)

FaultyWriteThoughts ==
  \E in \in WriteInputs, now \in Clock :
    \E randomP \in RandomFor(in, "project"), randomU \in RandomFor(in, "user"),
       faults \in FaultSets(Destinations(in.thoughts), WriteSteps) :
      WriteCall(in, now, randomP, randomU, faults)

FaultyGenerateMissingEmbeddings ==
  \E now \in ScanClock,
     faults \in FaultSets({"project", "user"}, EmbeddingSteps \cup ScanSteps) :
    ReconcileCall(now, faults)

NextFaults ==
  \/ FaultyWriteThoughts
  \/ FaultyGenerateMissingEmbeddings
  \/ SyncArrives

SpecFaults == InitFaults /\ [][NextFaults]_vars

\* ------------------------------------------------ the shapes of one entry

\* The thoughts and metadata of the calls that show every shape of an
\* entry: each section absent or present, feelings and project_notes also
\* empty, each metadata value absent, empty or given.
SectionValues == {Unset, Word}
EmptiableValues == {Unset, Str(<<>>), Word}
MetadataValues == {Unset, Str(<<>>), Str(<<"m">>)}

EntryInputs ==
  { [thoughts |-> Thoughts(f, p, u, t, k),
     metadata |-> [project |-> mp, agent |-> ma]] :
      f \in EmptiableValues, p \in EmptiableValues, u \in SectionValues,
      t \in SectionValues, k \in SectionValues,
      mp \in MetadataValues, ma \in MetadataValues }

\* journalManager.writeThoughts(thoughts, metadata) on a journal that holds
\* fewer than MaxEntryFiles entries.
WriteEntries ==
  \E in \in EntryInputs, now \in Clock :
    \E randomP \in RandomFor(in, "project"), randomU \in RandomFor(in, "user") :
      /\ Cardinality(MarkdownFiles(fs)) < MaxEntryFiles
      /\ WriteCall(in, now, randomP, randomU, {})

NextEntries == WriteEntries

SpecEntries == Init /\ [][NextEntries]_vars

\* ------------------------------------------- the functions of config.ts alone

\* The environments, registries and markdown paths the functions of
\* config.ts are applied to.
AppDataDir == <<"C:", WinSep, "AppData">>
OtherVaultDir == <<Sep, "mnt", Sep, "macbeth">>
ConfigEnvironments ==
  {Environment(p, v, l, h) :
     p \in {Unset, Str(<<>>), Str(OverrideDir)},
     v \in {Unset, Str(<<>>), Str(<<" ">>), Str(<<"macbeth">>), Str(<<"ghost">>),
            Str(<<"constructor">>)},
     l \in {Unset, Str(AppDataDir)},
     h \in {Unset, Str(HomeDir)}}

ConfigRegistries ==
  { ConfigFile(TRUE, TRUE, TRUE, <<Str(VaultDir)>>),
    ConfigFile(TRUE, TRUE, TRUE, <<Unset, Str(OtherVaultDir)>>),
    ConfigFile(TRUE, TRUE, FALSE, <<>>),
    ConfigFile(TRUE, FALSE, FALSE, <<>>),
    ConfigFile(FALSE, FALSE, FALSE, <<>>) }

ConfigDates == {"2025-12-22", "2025-12-23"}
ConfigFileNames == {<<"14-30-45", "-", "123007">>, <<"09-00-00", "-", "000042">>}
ConfigRoots ==
  { PathJoin(VaultDir, <<"agentic-journal">>),
    PathJoin(OtherVaultDir, <<"agentic-journal">>),
    PathJoin(HomeDir, <<".private-journal">>) }

MarkdownPaths ==
  {PathJoin(PathJoin(root, <<d>>), f \o <<".md">>) :
     root \in ConfigRoots, d \in ConfigDates, f \in ConfigFileNames}

InitConfig ==
  /\ env \in ConfigEnvironments
  /\ registry \in ConfigRegistries
  /\ mgr = JournalManager(ProjectDir, Unset)
  /\ fs = <<>>
  /\ dirs = {}
  /\ envChanges = 0
  /\ last = NoCall
  /\ calls = NoCalls
  /\ race = NoRace

\* await getUserJournalPath(obsidianConfigPath)
GetUserJournalPath ==
  /\ last' = [op |-> "getUserJournalPath", result |-> getUserJournalPath(env, registry)]
  /\ UNCHANGED <<race, calls, env, registry, mgr, fs, dirs, envChanges>>

\* getEmbeddingPathForFile(mdPath, isUserJournal)
GetEmbeddingPathForFile ==
  \E mdPath \in MarkdownPaths, isUserJournal \in BOOLEAN :
    /\ last' = [op |-> "getEmbeddingPathForFile", mdPath |-> mdPath,
                isUserJournal |-> isUserJournal,
                result |-> getEmbeddingPathForFile(env, mdPath, isUserJournal)]
    /\ UNCHANGED <<race, calls, env, registry, mgr, fs, dirs, envChanges>>

NextConfig ==
  \/ GetUserJournalPath
  \/ GetEmbeddingPathForFile

SpecConfig == InitConfig /\ [][NextConfig]_vars

\* ------------------------------------ resolveUserJournalPath, await by await

\* A variant of ResolveToAwait that remembers the resolved path but not the
\* promise: every call that finds no path yet calls getUserJournalPath().
ResolveToAwaitWithoutPromise(m) ==
  IF Truthy(m.userJournalPath)
  THEN [mgr |-> m, pc |-> "returned", path |-> m.userJournalPath.val, called |-> FALSE]
  ELSE IF Truthy(m.explicitUserPath)
  THEN [mgr |-> [m EXCEPT !.userJournalPath = m.explicitUserPath],
        pc |-> "returned", path |-> m.explicitUserPath.val, called |-> FALSE]
  ELSE [mgr |-> [m EXCEPT !.userJournalPathPromise =
                            [state |-> "pending", path |-> <<>>]],
        pc |-> "awaiting", path |-> <<>>, called |-> TRUE]

\* resolveUserJournalPath up to its await: the manager, where the call is
\* then, the path if it returned, and whether getUserJournalPath() was
\* called.
ResolveToAwait(m) ==
  IF Truthy(m.userJournalPath)
  THEN [mgr |-> m, pc |-> "returned", path |-> m.userJournalPath.val, called |-> FALSE]
  ELSE IF m.userJournalPathPromise.state = "null" /\ Truthy(m.explicitUserPath)
  THEN [mgr |-> [m EXCEPT !.userJournalPath = m.explicitUserPath],
        pc |-> "returned", path |-> m.explicitUserPath.val, called |-> FALSE]
  ELSE IF m.userJournalPathPromise.state = "null"
  THEN [mgr |-> [m EXCEPT !.userJournalPathPromise =
                            [state |-> "pending", path |-> <<>>]],
        pc |-> "awaiting", path |-> <<>>, called |-> TRUE]
  ELSE [mgr |-> m, pc |-> "awaiting", path |-> <<>>, called |-> FALSE]

\* The state once call c has run to its await or returned.
BeginReturns(c, b) ==
  /\ mgr' = b.mgr
  /\ calls' = [calls EXCEPT !.pc[c] = b.pc,
                            !.path[c] = b.path,
                            !.resolutions = IF b.called THEN @ + 1 ELSE @,
                            !.captured = IF b.called THEN env ELSE @]
  /\ UNCHANGED <<race, env, registry, fs, dirs, envChanges, last>>

\* A caller (writeThoughts, generateEmbeddingForEntry or
\* generateMissingEmbeddings) calls resolveUserJournalPath.
BeginResolve ==
  \E c \in Callers :
    /\ calls.pc[c] = "idle"
    /\ BeginReturns(c, ResolveToAwait(mgr))

\* process.env as getUserJournalPath sees it: the two journal variables
\* when it was called, and HOME after its await of getObsidianVaults when
\* it has one.
EnvAtSettle(captured, current) ==
  IF /\ ~Truthy(captured.AGENTIC_JOURNAL_PATH)
     /\ Truthy(captured.AGENTIC_JOURNAL_VAULT)
     /\ Len(Trim(captured.AGENTIC_JOURNAL_VAULT.val)) > 0
  THEN [captured EXCEPT !.HOME = current.HOME]
  ELSE captured

\* The promise of getUserJournalPath() settles; the registry is read now.
SettlePromise ==
  /\ mgr.userJournalPathPromise.state = "pending"
  /\ mgr' = [mgr EXCEPT !.userJournalPathPromise =
                          PromiseOf(getUserJournalPath(EnvAtSettle(calls.captured, env),
                                                       registry))]
  /\ UNCHANGED <<race, env, registry, fs, dirs, envChanges, last, calls>>

\* The state once call c has gone on after its await; a is what
\* `this.userJournalPath = await this.userJournalPathPromise` gave.
ResumeReturns(c, a) ==
  /\ mgr' = a.mgr
  /\ calls' = [calls EXCEPT !.pc[c] = IF a.threw THEN "threw" ELSE "returned",
                            !.path[c] = a.path]
  /\ UNCHANGED <<race, env, registry, fs, dirs, envChanges, last>>

ResumeResolve ==
  \E c \in Callers :
    /\ calls.pc[c] = "awaiting"
    /\ mgr.userJournalPathPromise.state \in {"fulfilled", "rejected"}
    /\ ResumeReturns(c, Await(mgr, mgr.userJournalPathPromise))

\* The registry file changes while the instance lives.
ResolveRegistries ==
  {ConfigFile(TRUE, TRUE, TRUE, <<Str(VaultDir)>>), ConfigFile(FALSE, FALSE, FALSE, <<>>)}

ChangeRegistry ==
  \E r \in ResolveRegistries \ {registry} :
    /\ envChanges < MaxEnvChanges
    /\ envChanges' = envChanges + 1
    /\ registry' = r
    /\ UNCHANGED <<race, env, mgr, fs, dirs, last, calls>>

InitResolve ==
  /\ env \in Environments
  /\ registry \in ResolveRegistries
  /\ mgr \in {JournalManager(ProjectDir, Unset), JournalManager(ProjectDir, Str(OverrideDir))}
  /\ fs = <<>>
  /\ dirs = {}
  /\ envChanges = 0
  /\ last = NoCall
  /\ calls = NoCalls
  /\ race = NoRace

NextResolve ==
  \/ BeginResolve
  \/ SettlePromise
  \/ ResumeResolve
  \/ ChangeEnvironment
  \/ ChangeRegistry

SpecResolve == InitResolve /\ [][NextResolve]_vars

\* ------------------------------------------------------ the vault registry

\* The registry documents: unreadable, malformed, without a vaults mapping,
\* and with up to two vault entries, each null, without a path, with an
\* empty path, with a POSIX-style path (two of them with the same last
\* segment) or with a Windows-style path.
WindowsVaultDir == <<"C:", WinSep, "Users", WinSep, "work">>
RegistryEntries ==
  {NullEntry, Unset, Str(<<>>), Str(VaultDir), Str(OtherVaultDir), Str(WindowsVaultDir)}
RegistryVaults ==
  {<<>>} \cup {<<a>> : a \in RegistryEntries}
  \cup {<<a, b>> : a \in RegistryEntries, b \in RegistryEntries}
RegistryDocuments ==
  {ConfigFile(TRUE, TRUE, TRUE, v) : v \in RegistryVaults}
  \cup { ConfigFile(TRUE, TRUE, FALSE, <<>>),
         ConfigFile(TRUE, FALSE, FALSE, <<>>),
         ConfigFile(FALSE, FALSE, FALSE, <<>>) }
RegistryEnvironments ==
  {Environment(Unset, v, Unset, Str(HomeDir)) :
     v \in VaultValues \cup {Str(WindowsVaultDir)}}

InitRegistry ==
  /\ env \in RegistryEnvironments
  /\ registry \in RegistryDocuments
  /\ mgr = JournalManager(ProjectDir, Unset)
  /\ fs = <<>>
  /\ dirs = {}
  /\ envChanges = 0
  /\ last = NoCall
  /\ calls = NoCalls
  /\ race = NoRace

\* parseObsidianConfig(configJson) on the content of the registry file
ParseObsidianConfig ==
  /\ registry.readable
  /\ last' = [op |-> "parseObsidianConfig", result |-> parseObsidianConfig(registry)]
  /\ UNCHANGED <<race, calls, env, registry, mgr, fs, dirs, envChanges>>

\* await getObsidianVaults(configPath)
GetObsidianVaults ==
  /\ last' = [op |-> "getObsidianVaults", result |-> getObsidianVaults(registry)]
  /\ UNCHANGED <<race, calls, env, registry, mgr, fs, dirs, envChanges>>

NextRegistry ==
  \/ ParseObsidianConfig
  \/ GetObsidianVaults
  \/ GetUserJournalPath

SpecRegistry == InitRegistry /\ [][NextRegistry]_vars

\* ------------------------------------------------------- searching entries

\* The arguments of the write calls of SpecSearch: entries of distinct
\* texts for the two roots.
SearchWriteInputs ==
  { [thoughts |-> Thoughts(Str(<<"js">>), Str(<<"react">>), Unset, Unset, Unset),
     metadata |-> NoMetadata],
    [thoughts |-> Thoughts(Unset, Str(<<"react">>), Unset, Unset, Unset),
     metadata |-> NoMetadata],
    [thoughts |-> Thoughts(Str(<<"js">>), Unset, Unset, Unset, Unset),
     metadata |-> NoMetadata],
    [thoughts |-> Thoughts(Unset, Str(<<"js">>), Unset, Unset, Unset),
     metadata |-> NoMetadata],
    [thoughts |-> Thoughts(Str(<<"react">>), Unset, Unset, Unset, Unset),
     metadata |-> NoMetadata] }

SearchTypes == {"both", "project", "user"}

\* journalManager.writeThoughts(thoughts) before a search.
WriteForSearch ==
  \E in \in SearchWriteInputs, now \in Clock :
    \E randomP \in RandomFor(in, "project"), randomU \in RandomFor(in, "user") :
      WriteCall(in, now, randomP, randomU, {})

\* The state once search returned or threw; root is the user root.
SearchReturns(root, type, scoring) ==
  /\ last' = [op |-> "search", type |-> type, scoring |-> scoring,
              threw |-> root.threw, projectPath |-> mgr.projectJournalPath,
              userPath |-> root.path,
              results |-> IF root.threw THEN <<>>
                          ELSE search(fs, env, mgr.projectJournalPath, root.path,
                                      type, scoring)]
  /\ UNCHANGED <<race, calls, env, registry, mgr, fs, dirs, envChanges>>

\* searchService.search(query, {type})
Search ==
  \E type \in SearchTypes, scoring \in Scorings :
    SearchReturns(SearchUserRoot(mgr, env, registry), type, scoring)

NextSearch ==
  \/ WriteForSearch
  \/ Search
  \/ ChangeEnvironment

SpecSearch == Init /\ [][NextSearch]_vars

\* ------------------------------- a write and a reconciliation, await by await

\* The thoughts of the racing write: one destination.
RaceWriteInputs ==
  { [dest |-> "project", thoughts |-> Thoughts(Unset, Word, Unset, Unset, Unset)],
    [dest |-> "user", thoughts |-> Thoughts(Word, Unset, Unset, Unset, Unset)] }

\* writeThoughtsToLocation up to `await fs.writeFile(filePath, ...)`.
WriterWroteFile(in, timestamp, dayDirectory, filePath) ==
  /\ fs' = WriteFile(fs, filePath, formatThoughts(in.thoughts, timestamp, NoMetadata))
  /\ dirs' = dirs \cup {dayDirectory}
  /\ race' = [race EXCEPT !.writer = "embedding", !.dest = in.dest,
                          !.filePath = filePath,
                          !.content = formatThoughts(in.thoughts, timestamp, NoMetadata),
                          !.timestamp = timestamp]

\* writeThoughts up to the markdown write of its destination; r is what
\* resolveUserJournalPath gave for the user destination.
WriterBegins(r, in, timestamp, random) ==
  /\ IF in.dest = "project"
     THEN /\ mgr' = mgr
          /\ WriterWroteFile(in, timestamp,
                             PathJoin(mgr.projectJournalPath, formatDate(timestamp)),
                             PathJoin(PathJoin(mgr.projectJournalPath,
                                               formatDate(timestamp)),
                                      formatTimestamp(timestamp, random) \o <<".md">>))
     ELSE IF r.threw
     THEN /\ mgr' = r.mgr
          /\ race' = [race EXCEPT !.writer = "threw", !.dest = in.dest]
          /\ UNCHANGED <<fs, dirs>>
     ELSE /\ mgr' = r.mgr
          /\ WriterWroteFile(in, timestamp,
                             PathJoin(r.path, formatDate(timestamp)),
                             PathJoin(PathJoin(r.path, formatDate(timestamp)),
                                      formatTimestamp(timestamp, random) \o <<".md">>))
  /\ UNCHANGED <<env, registry, envChanges, last, calls>>

WriterWritesMarkdown ==
  \E in \in RaceWriteInputs, now \in Clock, random \in RandomValues :
    /\ race.writer = "idle"
    /\ WriterBegins(resolveUserJournalPath(mgr, env, registry), in, now, random)

\* The state once generateEmbeddingForEntry gave g.
EmbeddingSaved(g, nextRace) ==
  /\ mgr' = g.w.mgr
  /\ fs' = g.w.fs
  /\ dirs' = g.w.dirs
  /\ race' = nextRace
  /\ UNCHANGED <<env, registry, envChanges, last, calls>>

\* writeThoughtsToLocation from `await this.generateEmbeddingForEntry(filePath,
\* formattedEntry, timestamp)` on.
WriterSavesEmbedding ==
  /\ race.writer = "embedding"
  /\ EmbeddingSaved(generateEmbeddingForEntry(World(mgr, fs, dirs), env, registry,
                                              race.filePath, race.content,
                                              race.timestamp, {}, race.dest),
                    [race EXCEPT !.writer = "done"])

\* generateMissingEmbeddings up to the listing of the project root; r is what
\* resolveUserJournalPath gave.
ScannerBegins(r) ==
  /\ mgr' = r.mgr
  /\ race' = IF r.threw THEN [race EXCEPT !.scanner = "threw"]
             ELSE [race EXCEPT !.scanner = "check", !.root = "project",
                               !.queue = ListRoot(fs, mgr.projectJournalPath, {},
                                                  "project")]
  /\ UNCHANGED <<env, registry, fs, dirs, envChanges, last, calls>>

ScannerListsProjectRoot ==
  /\ race.scanner = "idle"
  /\ ScannerBegins(resolveUserJournalPath(mgr, env, registry))

\* The second iteration of `for (const basePath of paths)`, or the return.
ScannerNextRoot ==
  /\ race.scanner = "check"
  /\ race.queue = <<>>
  /\ race' = IF race.root = "project"
             THEN [race EXCEPT !.root = "user",
                               !.queue = ListRoot(fs, mgr.userJournalPath.val, {},
                                                  "user")]
             ELSE [race EXCEPT !.scanner = "done"]
  /\ UNCHANGED <<env, registry, mgr, fs, dirs, envChanges, last, calls>>

\* `await fs.access(embeddingPath)` for the next markdown file.
ScannerChecks ==
  /\ race.scanner = "check"
  /\ race.queue # <<>>
  /\ race' = IF Exists(fs, ReplaceMdExt(Head(race.queue)))
             THEN [race EXCEPT !.queue = Tail(@)]
             ELSE [race EXCEPT !.scanner = "regenerate",
                               !.observed = @ \/ ( /\ Head(race.queue) = race.filePath
                                                   /\ race.writer = "embedding" )]
  /\ UNCHANGED <<env, registry, mgr, fs, dirs, envChanges, last, calls>>

\* The catch block of the file: readFile, extractTimestampFromPath,
\* generateEmbeddingForEntry.
ScannerRegenerates ==
  \E now \in Clock :
    /\ race.scanner = "regenerate"
    /\ EmbeddingSaved(generateEmbeddingForEntry(
                        World(mgr, fs, dirs), env, registry, Head(race.queue),
                        fs[Head(race.queue)],
                        OrNow(extractTimestampFromPath(Head(race.queue)), now),
                        {}, race.root),
                      [race EXCEPT !.scanner = "check", !.queue = Tail(@)])

NextRace ==
  \/ WriterWritesMarkdown
  \/ WriterSavesEmbedding
  \/ ScannerListsProjectRoot
  \/ ScannerNextRoot
  \/ ScannerChecks
  \/ ScannerRegenerates

SpecRace == Init /\ [][NextRace]_vars

\* ------------------------------------- the names of an entry, digit by digit

\* A name is the sequence of its characters.
DigitChars == <<"0", "1", "2", "3", "4", "5", "6", "7", "8", "9">>
Dash == <<"-">>

\* String(n) of a natural number.
RECURSIVE DecimalOf(_)
DecimalOf(n) ==
  IF n < 10 THEN <<DigitChars[n + 1]>>
  ELSE DecimalOf(n \div 10) \o <<DigitChars[(n % 10) + 1]>>

\* s.padStart(length, '0')
RECURSIVE PadStart(_, _)
PadStart(s, length) == IF Len(s) >= length THEN s ELSE PadStart(<<"0">> \o s, length)

\* A Date by its local fields; month is getMonth(), January being 0.
LocalDate(year, month, day, hours, minutes, seconds, ms) ==
  [year |-> year, month |-> month, day |-> day, hours |-> hours,
   minutes |-> minutes, seconds |-> seconds, ms |-> ms]

\* A variant of formatDateString that does not pad the month and the day.
formatDateUnpadded(date) ==
  DecimalOf(date.year) \o Dash \o DecimalOf(date.month + 1) \o Dash
  \o DecimalOf(date.day)

\* formatDate, character by character.
formatDateString(date) ==
  DecimalOf(date.year) \o Dash \o PadStart(DecimalOf(date.month + 1), 2) \o Dash
  \o PadStart(DecimalOf(date.day), 2)

\* formatTimestamp, character by character; random is the value of
\* Math.floor(Math.random() * 1000).
formatTimestampString(date, random) ==
  PadStart(DecimalOf(date.hours), 2) \o Dash \o PadStart(DecimalOf(date.minutes), 2)
  \o Dash \o PadStart(DecimalOf(date.seconds), 2) \o Dash
  \o PadStart(DecimalOf(date.ms * 1000 + random), 6)

\* The characters from..to of s are there and are digits: \d{to - from + 1}.
IsDigits(s, from, to) ==
  /\ Len(s) >= to
  /\ \A i \in from..to : \E d \in 1..10 : s[i] = DigitChars[d]

\* /^\d{4}-\d{2}-\d{2}$/
MatchesDatePattern(s) ==
  /\ Len(s) = 10
  /\ IsDigits(s, 1, 4) /\ s[5] = "-" /\ IsDigits(s, 6, 7) /\ s[8] = "-"
  /\ IsDigits(s, 9, 10)

\* /^(\d{2})-(\d{2})-(\d{2})-\d{6}$/
MatchesTimePattern(s) ==
  /\ Len(s) = 15
  /\ IsDigits(s, 1, 2) /\ s[3] = "-" /\ IsDigits(s, 4, 5) /\ s[6] = "-"
  /\ IsDigits(s, 7, 8) /\ s[9] = "-" /\ IsDigits(s, 10, 15)

\* parseInt of a string of digits.
RECURSIVE parseInt(_)
parseInt(s) ==
  IF s = <<>> THEN 0
  ELSE 10 * parseInt(SubSeq(s, 1, Len(s) - 1))
       + (CHOOSE d \in 0..9 : DigitChars[d + 1] = s[Len(s)])

IsLeapYear(year) == (year % 4 = 0 /\ year % 100 # 0) \/ year % 400 = 0

DaysInMonth(year, month) ==
  IF month = 1 THEN (IF IsLeapYear(year) THEN 29 ELSE 28)
  ELSE IF month \in {3, 5, 8, 10} THEN 30
  ELSE 31

\* The calendar day a year, a month index and a day of the month name, the
\* month index and the day being any integers, as the Date constructor
\* takes them.
RECURSIVE MakeDay(_, _, _)
MakeDay(year, month, day) ==
  IF month < 0 \/ month > 11 THEN MakeDay(year + (month \div 12), month % 12, day)
  ELSE IF day < 1
  THEN (IF month = 0 THEN MakeDay(year - 1, 11, day + 31)
        ELSE MakeDay(year, month - 1, day + DaysInMonth(year, month - 1)))
  ELSE IF day > DaysInMonth(year, month)
  THEN MakeDay(year, month + 1, day - DaysInMonth(year, month))
  ELSE [year |-> year, month |-> month, day |-> day]

\* The Date of a calendar day and a second of that day.
DateAt(calendarDay, secondOfDay) ==
  LocalDate(calendarDay.year, calendarDay.month, calendarDay.day,
            secondOfDay \div 3600, (secondOfDay % 3600) \div 60, secondOfDay % 60, 0)

\* new Date(year, monthIndex, day, hours, minutes, seconds): a year from 0
\* to 99 is a year of the 20th century, and fields beyond their range
\* carry over.
NewDate(year, monthIndex, day, hours, minutes, seconds) ==
  DateAt(MakeDay(IF year >= 0 /\ year <= 99 THEN 1900 + year ELSE year, monthIndex,
                 day + ((hours * 3600 + minutes * 60 + seconds) \div 86400)),
         (hours * 3600 + minutes * 60 + seconds) % 86400)

NullDate == [null |-> TRUE, date |-> LocalDate(0, 0, 0, 0, 0, 0, 0)]

\* extractTimestampFromPath, character by character: filename is
\* path.basename(filePath, '.md') and dirName is
\* path.basename(path.dirname(filePath)).
extractTimestampFromNames(filename, dirName) ==
  IF ~MatchesTimePattern(filename) THEN NullDate
  ELSE IF ~MatchesDatePattern(dirName) THEN NullDate
  ELSE [null |-> FALSE,
        date |-> NewDate(parseInt(SubSeq(dirName, 1, 4)),
                         parseInt(SubSeq(dirName, 6, 7)) - 1,
                         parseInt(SubSeq(dirName, 9, 10)),
                         parseInt(SubSeq(filename, 1, 2)),
                         parseInt(SubSeq(filename, 4, 5)),
                         parseInt(SubSeq(filename, 7, 8)))]

\* The times new Date() gives a writeThoughts call: days of the first and
\* last year of a clock that counts from 1970 and shows four digits, of a
\* leap year and of a common year, at the ends and inside of each field's
\* range.
ClockYears == {1970, 2024, 2025, 9999}
ClockMonths == {0, 1, 8, 11}
ClockDays == {1, 9, 28, 29, 30, 31}
ClockHours == {0, 9, 23}
ClockMinutes == {0, 59}
ClockSeconds == {0, 59}
ClockMilliseconds == {0, 7, 999}
RandomSuffixes == {0, 7, 999}

CalendarDays ==
  {c \in [year : ClockYears, month : ClockMonths, day : ClockDays] :
     c.day <= DaysInMonth(c.year, c.month)}

CreationTimes ==
  {LocalDate(c.year, c.month, c.day, h, mi, sec, ms) :
     c \in CalendarDays, h \in ClockHours, mi \in ClockMinutes, sec \in ClockSeconds,
     ms \in ClockMilliseconds}

\* Names of directories and files another program or a person made.
OtherDirNames ==
  { <<"2", "0", "2", "5", "-", "1", "2", "-", "2", "3">>,
    <<"2", "0", "2", "5", "-", "1", "-", "0", "5">>,
    <<"n", "o", "t", "e", "s">> }
OtherFileNames ==
  { <<"0", "9", "-", "0", "0", "-", "0", "0", "-", "0", "0", "0", "0", "4", "2">>,
    <<"0", "9", "-", "0", "0", "-", "0", "0", "-", "4", "2">>,
    <<"r", "e", "a", "d", "m", "e">> }

NoStamp ==
  [op |-> "none", date |-> LocalDate(0, 0, 0, 0, 0, 0, 0), random |-> 0,
   dirName |-> <<>>, filename |-> <<>>, extracted |-> NullDate]

InitTimestamps ==
  /\ env = Environment(Unset, Unset, Unset, Str(HomeDir))
  /\ registry \in Registries
  /\ mgr = JournalManager(ProjectDir, Unset)
  /\ fs = <<>>
  /\ dirs = {}
  /\ envChanges = 0
  /\ last = NoStamp
  /\ calls = NoCalls
  /\ race = NoRace

\* writeThoughtsToLocation names the day directory and the file of an entry
\* created at date, and a later scan reads the time back from the names.
\* The names of one entry do not depend on the entries before it: the
\* specification follows one entry.
NamesEntry ==
  \E date \in CreationTimes, random \in RandomSuffixes :
    /\ last.op = "none"
    /\ last' = [op |-> "names", date |-> date, random |-> random,
                dirName |-> formatDateString(date),
                filename |-> formatTimestampString(date, random),
                extracted |-> extractTimestampFromNames(
                                formatTimestampString(date, random),
                                formatDateString(date))]
    /\ UNCHANGED <<race, calls, env, registry, mgr, fs, dirs, envChanges>>

\* extractTimestampFromPath on a file the writer did not name.
ExtractsFromOtherNames ==
  \E dirName \in OtherDirNames, filename \in OtherFileNames :
    /\ last.op = "none"
    /\ last' = [NoStamp EXCEPT !.op = "extracts", !.dirName = dirName,
                               !.filename = filename,
                               !.extracted =
                                 extractTimestampFromNames(filename, dirName)]
    /\ UNCHANGED <<race, calls, env, registry, mgr, fs, dirs, envChanges>>

NextTimestamps ==
  \/ NamesEntry
  \/ ExtractsFromOtherNames

SpecTimestamps == InitTimestamps /\ [][NextTimestamps]_vars

\* ------------------------------------------------------------------ claims

\* The text is set and has at least one character.
NonEmpty(o) == o.set /\ o.val # <<>>

\* The text is set and has a character that is not whitespace.
HasNonWhitespace(o) == o.set /\ \E i \in 1..Len(o.val) : ~IsWhitespace(o.val[i])

\* C1: getUserJournalPath is a total, ordered fallback: a non-empty
\* AGENTIC_JOURNAL_PATH is returned verbatim whatever the vault variable and
\* the registry hold; otherwise a non-empty AGENTIC_JOURNAL_VAULT that names
\* a registered vault gives <vault-path>/agentic-journal; otherwise the
\* result is the default directory, with a warning exactly when the variable
\* names something the registry does not have.
C1_FallbackOrder ==
  last.op = "getUserJournalPath" =>
    LET override   == env.AGENTIC_JOURNAL_PATH
        vault      == env.AGENTIC_JOURNAL_VAULT
        vaults     == getObsidianVaults(registry)
        registered == NonEmpty(vault) /\ vault.val \in DOMAIN vaults
    IN IF NonEmpty(override)
       THEN last.result = Returned(override.val, FALSE)
       ELSE IF registered
       THEN last.result = Returned(vaults[vault.val] \o <<Sep, "agentic-journal">>, FALSE)
       ELSE last.result = Returned(resolveJournalPath(env), HasNonWhitespace(vault))

\* C2: reconciliation is idempotent in every mode: after a call of
\* generateMissingEmbeddings has returned, a second call with no write in
\* between returns 0 and regenerates nothing.
C2_ReconcileIdempotent ==
  (last.op = "reconcile" /\ ~last.threw) =>
    \A now \in Clock :
      LET again == generateMissingEmbeddings(World(mgr, fs, dirs), env, registry, now, {})
      IN ~again.threw /\ again.count = 0 /\ again.regenerated = {}

\* The titles of the sections one destination of a write call is passed, in
\* document order.
PassedSections(thoughts, dest) ==
  LET title(field, t) == IF NonEmpty(field) THEN <<t>> ELSE <<>>
  IN IF dest = "project" THEN title(thoughts.project_notes, "Project Notes")
     ELSE title(thoughts.feelings, "Feelings")
          \o title(thoughts.user_context, "User Context")
          \o title(thoughts.technical_insights, "Technical Insights")
          \o title(thoughts.world_knowledge, "World Knowledge")

\* C3: write/load round trip: once writeThoughts has returned, loading the
\* embedding of each entry it wrote, at the location of the entry's root and
\* the mode, gives a record whose path is the markdown file's path and whose
\* sections are the sections passed for that destination.
C3_WriteLoadRoundTrip ==
  (last.op = "write" /\ ~last.threw) =>
    \A i \in 1..Len(last.entries) :
      LET e   == last.entries[i]
          rec == loadEmbedding(fs, env, e.path, e.dest = "user")
      IN /\ rec.found
         /\ rec.data.path = e.path
         /\ rec.data.sections = PassedSections(last.input, e.dest)

\* C4: an embedding failure never fails or reverts a write: the markdown
\* files a call wrote are on disk with the content it wrote, and a call
\* fails only at the directory creation or the markdown write.
C4_WriteOutcomeByMarkdownOnly ==
  last.op = "write" =>
    /\ last.threw => last.cause \in {"mkdir", "write"}
    /\ \A i \in 1..Len(last.entries) :
         /\ Exists(fs, last.entries[i].path)
         /\ fs[last.entries[i].path] = last.entries[i].content

\* The path lies directly in the directory dir.
DirectlyIn(dir, path) ==
  /\ Len(path) > Len(dir) + 1
  /\ SubSeq(path, 1, Len(dir) + 1) \in {dir \o <<Sep>>, dir \o <<WinSep>>}
  /\ \A i \in (Len(dir) + 2)..Len(path) : path[i] \notin {Sep, WinSep}

\* The path lies directly in the cache directory.
InCacheDirectory(e, path) == DirectlyIn(getEmbeddingCachePath(e), path)

\* C5: embedding location by destination: the embedding of an entry written
\* by writeThoughts is in the cache directory exactly when the entry went to
\* the user root and synced-vault mode is on; every other entry has its
\* embedding beside its markdown file, .md replaced by .embedding.
C5_LocationByDestination ==
  last.op = "write" =>
    \A i \in 1..Len(last.entries) :
      LET e == last.entries[i]
      IN e.savedAt.set =>
           IF e.dest = "user" /\ isObsidianMode(env)
           THEN InCacheDirectory(env, e.savedAt.val)
           ELSE /\ e.savedAt.val = SubSeq(e.path, 1, Len(e.path) - 1) \o <<".embedding">>
                /\ ~InCacheDirectory(env, e.savedAt.val)

\* The markdown path of the file f of the day d below the root.
MarkdownPath(root, d, f) == root \o <<Sep, d, Sep>> \o f \o <<".md">>

C7_ModeIsIntent ==
  /\ isObsidianMode(env) <=> HasNonWhitespace(env.AGENTIC_JOURNAL_VAULT)
  /\ ( /\ last.op = "getUserJournalPath"
       /\ HasNonWhitespace(env.AGENTIC_JOURNAL_VAULT)
       /\ ~NonEmpty(env.AGENTIC_JOURNAL_PATH)
       /\ env.AGENTIC_JOURNAL_VAULT.val \notin DOMAIN getObsidianVaults(registry) )
     => /\ ~last.result.threw
        /\ last.result.path = resolveJournalPath(env)
        /\ \A d \in ConfigDates, f \in ConfigFileNames :
             InCacheDirectory(env, getEmbeddingPathForFile(
                                     env, MarkdownPath(last.result.path, d, f), TRUE))

\* C8: generateMissingEmbeddings treats a markdown file as already embedded
\* exactly when an embedding exists at the location the policy computes for
\* the file's root and the mode; a file whose embedding is there is not
\* regenerated.
C8_SkipsIffEmbeddedAtPolicyLocation ==
  (last.op = "reconcile" /\ ~last.threw) =>
    /\ last.skipped = last.embedded
    /\ last.regenerated \cap last.embedded = {}

\* C9: self-healing: after generateMissingEmbeddings has completed with the
\* embedding model succeeding, every markdown file with non-empty searchable
\* text in a date directory of the project root or of the user root has an
\* embedding record at its policy location whose path names the file.
C9_SelfHealing ==
  (last.op = "reconcile" /\ ~last.threw) =>
    LET healed(md, isUserJournal) ==
          Len(Trim(extractSearchableText(fs[md]).text)) > 0 =>
            LET rec == loadEmbedding(fs, env, md, isUserJournal)
            IN rec.found /\ rec.data.path = md
    IN /\ \A md \in ScannedMarkdown(fs, mgr.projectJournalPath) : healed(md, FALSE)
       /\ \A md \in ScannedMarkdown(fs, mgr.userJournalPath.val) : healed(md, TRUE)

\* C10: partition of one write call: writeThoughts creates one markdown file
\* under the project root exactly when project_notes is non-empty, and one
\* under the user root exactly when one of feelings, user_context,
\* technical_insights, world_knowledge is non-empty; never more than one per
\* root, and none for a partition of absent or empty-string sections.
C10_PartitionOfOneCall ==
  (last.op = "write" /\ ~last.threw) =>
    LET written(dest) == {i \in 1..Len(last.entries) : last.entries[i].dest = dest}
        t == last.input
    IN /\ Cardinality(written("project")) = IF NonEmpty(t.project_notes) THEN 1 ELSE 0
       /\ Cardinality(written("user")) =
            IF \/ NonEmpty(t.feelings) \/ NonEmpty(t.user_context)
               \/ NonEmpty(t.technical_insights) \/ NonEmpty(t.world_knowledge)
            THEN 1 ELSE 0
       /\ \A i \in written("project") :
            StartsWith(last.entries[i].path, mgr.projectJournalPath)
       /\ \A i \in written("user") :
            StartsWith(last.entries[i].path, mgr.userJournalPath.val)

\* The tag of the section with this title.
TagOf(title) ==
  CASE title = "Feelings" -> "feelings"
    [] title = "Project Notes" -> "project-notes"
    [] title = "User Context" -> "user-context"
    [] title = "Technical Insights" -> "technical-insights"
    [] title = "World Knowledge" -> "world-knowledge"
    [] OTHER -> "none"

\* The section tags in the order of declaration.
TagOrder ==
  <<"feelings", "project-notes", "user-context", "technical-insights", "world-knowledge">>

\* C11: the tag list of every entry written by writeThoughts is the tag
\* agentic-journal followed by one tag for each section the entry has, in
\* the order feelings, project-notes, user-context, technical-insights,
\* world-knowledge, and no other tag; the project line and the agent line
\* are in the metadata block only when that metadata value was given, and
\* then with that value.
C11_TagsAndMetadataLines ==
  last.op = "write" =>
    \A i \in 1..Len(last.entries) :
      LET md == fs[last.entries[i].path]
      IN /\ md.tags =
              <<"agentic-journal">>
              \o SelectSeq(TagOrder,
                           LAMBDA t : \E j \in 1..Len(md.sections) :
                                        TagOf(md.sections[j].title) = t)
         /\ md.project.set => md.project = last.metadata.project
         /\ md.agent.set => md.agent = last.metadata.agent

\* C11 happens: writeThoughts({feelings: "w"}) without metadata wrote one
\* entry with the tags agentic-journal and feelings and neither line.
C11_Witness ==
  /\ last.op = "write"
  /\ last.input = Thoughts(Word, Unset, Unset, Unset, Unset)
  /\ last.metadata = NoMetadata
  /\ Len(last.entries) = 1
  /\ fs[last.entries[1].path].tags = <<"agentic-journal", "feelings">>
  /\ ~fs[last.entries[1].path].project.set
  /\ ~fs[last.entries[1].path].agent.set

\* The day directory a write call made now uses for the destination.
DayDirectoryOf(dest, now) ==
  PathJoin(IF dest = "project" THEN mgr.projectJournalPath
           ELSE resolveUserJournalPath(mgr, env, registry).path,
           formatDate(now))

\* The call r failed, and every file it created or changed belongs to an
\* entry of a destination other than dest.
FailedWithoutFilesFor(r, dest) ==
  /\ r.threw
  /\ \A p \in DOMAIN r.w.fs :
       (p \notin DOMAIN fs \/ r.w.fs[p] # fs[p]) =>
         \E i \in 1..Len(r.entries) :
           /\ r.entries[i].dest # dest
           /\ p = r.entries[i].path \/ r.entries[i].savedAt = Str(p)

\* C12: a write-path failure is fatal to the write call: in every state, a
\* writeThoughts call for which the creation of a destination's missing day
\* directory fails, or the write of its markdown file fails, throws, and it
\* creates no markdown file and no embedding record for that destination.
C12_WritePathFailureIsFatal ==
  \A in \in WriteInputs, now \in Clock, random \in RandomValues :
    \A dest \in Destinations(in.thoughts), step \in {"mkdir", "write"} :
      (step = "mkdir" => DayDirectoryOf(dest, now) \notin dirs) =>
        FailedWithoutFilesFor(
          writeThoughts(World(mgr, fs, dirs), env, registry, in.thoughts, in.metadata,
                        now, random, random, {Fault(dest, step)}),
          dest)

\* C12 happens: a call whose project entry was written threw at the write
\* of the user entry's markdown file.
C12_Witness ==
  /\ last.op = "write"
  /\ last.faulted
  /\ last.threw
  /\ last.cause = "write"
  /\ Len(last.entries) = 1
  /\ last.entries[1].dest = "project"
  /\ NonEmpty(last.input.feelings)

\* The calls r (a scan step failing) and r0 (no step failing) end alike and
\* did the same with each of these files.
SameScanOf(files, r, r0) ==
  /\ r.threw = r0.threw
  /\ r.skipped \cap files = r0.skipped \cap files
  /\ r.regenerated \cap files = r0.regenerated \cap files
  /\ r.persisted \cap files = r0.persisted \cap files

\* The markdown files in the date directories of the root other than dest,
\* userPath being the user root.
FilesOfOtherRoot(dest, userPath) ==
  IF dest = "project" THEN ScannedMarkdown(fs, userPath)
  ELSE ScannedMarkdown(fs, mgr.projectJournalPath)

\* A call without a failing step visits every markdown file of both roots,
\* a root without files or without a directory included.
VisitsBothRoots(r0) ==
  ~r0.threw =>
    r0.skipped \cup r0.regenerated =
      ScannedMarkdown(fs, mgr.projectJournalPath)
      \cup ScannedMarkdown(fs, r0.w.mgr.userJournalPath.val)

\* What C13 says of the call r0 without a failing step and the calls with
\* a scan step of one root failing.
ScanErrorsStayInTheirRoot(r0, now) ==
  /\ VisitsBothRoots(r0)
  /\ \A dest \in {"project", "user"}, step \in ScanSteps :
       SameScanOf(IF r0.threw THEN {}
                  ELSE FilesOfOtherRoot(dest, r0.w.mgr.userJournalPath.val),
                  generateMissingEmbeddings(World(mgr, fs, dirs), env, registry, now,
                                            {Fault(dest, step)}),
                  r0)

C14_CountIsPersisted ==
  (last.op = "reconcile" /\ ~last.threw) => last.count = Cardinality(last.persisted)

\* The last segment of a path in either style, trailing separators aside.
LastSegment(p) == Basename(ToPosix(p))

\* The document is malformed or has no usable top-level vaults mapping.
WithoutVaults(doc) ==
  \/ ~doc.wellFormed
  \/ ~doc.hasVaults
  \/ \E i \in 1..Len(doc.vaults) : doc.vaults[i] = NullEntry

\* C15: parseObsidianConfig never throws: each vault entry with a usable
\* path, POSIX-style or Windows-style, is in the result under the last
\* segment of its path with the full path as value, and a malformed
\* document or one without a usable vaults mapping gives the empty mapping.
C15_ParseKeyedByLastSegment ==
  last.op = "parseObsidianConfig" =>
    IF WithoutVaults(registry) THEN last.result = EmptyVaultMap
    ELSE \A i \in 1..Len(registry.vaults) :
           NonEmpty(registry.vaults[i]) =>
             /\ LastSegment(registry.vaults[i].val) \in DOMAIN last.result
             /\ last.result[LastSegment(registry.vaults[i].val)] = registry.vaults[i].val

\* C16: getObsidianVaults never throws: when the registry file cannot be
\* read the result is the empty mapping, and getUserJournalPath goes on to
\* the next step of the fallback, the default directory.
C16_UnreadableRegistryIsEmpty ==
  ~registry.readable =>
    /\ last.op = "getObsidianVaults" => last.result = EmptyVaultMap
    /\ (last.op = "getUserJournalPath" /\ ~NonEmpty(env.AGENTIC_JOURNAL_PATH)) =>
         last.result = Returned(resolveJournalPath(env),
                                HasNonWhitespace(env.AGENTIC_JOURNAL_VAULT))

\* Between whole calls of writeThoughts and generateMissingEmbeddings the
\* instance keeps the user root and the promise it has.
UserRootKeptByCalls ==
  [][ /\ mgr.userJournalPath.set => mgr'.userJournalPath = mgr.userJournalPath
      /\ mgr.userJournalPathPromise.state # "null" =>
           mgr'.userJournalPathPromise = mgr.userJournalPathPromise
      /\ (mgr.explicitUserPath.set /\ mgr'.userJournalPath.set) =>
           /\ mgr'.userJournalPath = mgr.explicitUserPath
           /\ mgr'.userJournalPathPromise.state = "null" ]_vars

\* C17: the user root is memoized per instance: however the calls of
\* resolveUserJournalPath interleave at their awaits and whatever changes of
\* the environment and the registry lie between them, getUserJournalPath()
\* is called at most once, all calls that return give the same path and
\* none throws when another returned, and with a user path passed to the
\* constructor every call returns that path and getUserJournalPath() is
\* never called.
C17_UserRootMemoized ==
  /\ calls.resolutions <= 1
  /\ \A c \in Callers, d \in Callers :
       /\ (calls.pc[c] = "returned" /\ calls.pc[d] = "returned") =>
            calls.path[c] = calls.path[d]
       /\ ~(calls.pc[c] = "returned" /\ calls.pc[d] = "threw")
  /\ mgr.explicitUserPath.set =>
       /\ calls.resolutions = 0
       /\ \A c \in Callers :
            /\ calls.pc[c] \in {"idle", "returned"}
            /\ calls.pc[c] = "returned" => calls.path[c] = mgr.explicitUserPath.val

\* C17 happens: two calls returned the path of one resolution although the
\* environment or the registry has changed since and getUserJournalPath()
\* would now give another path or fail.
C17_Witness ==
  /\ calls.resolutions = 1
  /\ envChanges = 1
  /\ \A c \in Callers : calls.pc[c] = "returned"
  /\ getUserJournalPath(env, registry) # Returned(calls.path[1], FALSE)
  /\ getUserJournalPath(env, registry) # Returned(calls.path[1], TRUE)

\* C18 as stated: the embedding location is a function of the markdown
\* path, the root type and the mode alone: a call of
\* getEmbeddingPathForFile in any other environment with the same mode
\* returns, for the same path and root type, the same string.
C18_PureInThreeInputs ==
  last.op = "getEmbeddingPathForFile" =>
    \A e \in ConfigEnvironments :
      isObsidianMode(e) = isObsidianMode(env) =>
        getEmbeddingPathForFile(e, last.mdPath, last.isUserJournal) = last.result

\* C18 amended: the embedding location is a function of the markdown path,
\* the root type, the mode and the two variables that place the cache
\* directory, LOCALAPPDATA and HOME: a call in any other environment that
\* agrees on these returns the same string, whatever the override, the
\* vault's name and the registry are.
C18_PureGivenCacheRoot ==
  last.op = "getEmbeddingPathForFile" =>
    \A e \in ConfigEnvironments :
      ( /\ isObsidianMode(e) = isObsidianMode(env)
        /\ e.LOCALAPPDATA = env.LOCALAPPDATA
        /\ e.HOME = env.HOME ) =>
        getEmbeddingPathForFile(e, last.mdPath, last.isUserJournal) = last.result

\* C18 happens: the embedding path of a user-root entry was computed in
\* synced-vault mode with an override set, and other environments of the
\* same mode and cache directory name another vault and have no override.
C18_Witness ==
  /\ last.op = "getEmbeddingPathForFile"
  /\ last.isUserJournal
  /\ isObsidianMode(env)
  /\ InCacheDirectory(env, last.result)
  /\ env.AGENTIC_JOURNAL_PATH = Str(OverrideDir)
  /\ env.AGENTIC_JOURNAL_VAULT = Str(<<"macbeth">>)

\* C19: the fallback chain in the order of the design document, vault
\* lookup before explicit path: when AGENTIC_JOURNAL_PATH and
\* AGENTIC_JOURNAL_VAULT are both set and the registry has the named vault,
\* getUserJournalPath returns <vault-path>/agentic-journal.
C19_VaultBeforeOverride ==
  LET override == env.AGENTIC_JOURNAL_PATH
      vault    == env.AGENTIC_JOURNAL_VAULT
      vaults   == getObsidianVaults(registry)
  IN ( /\ last.op = "getUserJournalPath"
       /\ NonEmpty(override)
       /\ NonEmpty(vault)
       /\ vault.val \in DOMAIN vaults ) =>
       last.result = Returned(PathJoin(vaults[vault.val], <<"agentic-journal">>), FALSE)

\* The entries of a root: the markdown paths in its date directories.
EntryOf(path, root) ==
  MatchesDate(Basename(Dirname(path))) /\ Dirname(Dirname(path)) = Normalize(root)

SetOf(seq) == {seq[i] : i \in 1..Len(seq)}

\* C20: search returns one merged ranking over both roots in the order of
\* non-increasing score: without a filter the results are those of the
\* project root and those of the user root together; with the filter
\* project or user every result has that type and none is the record of an
\* entry of the other root.
C20_MergedRankingAndFilter ==
  (last.op = "search" /\ ~last.threw) =>
    /\ \A i \in 1..(Len(last.results) - 1) :
         last.results[i].score >= last.results[i + 1].score
    /\ last.type = "both" =>
         /\ SetOf(last.results)
              = SetOf(search(fs, env, last.projectPath, last.userPath, "project",
                             last.scoring))
                \cup SetOf(search(fs, env, last.projectPath, last.userPath, "user",
                                  last.scoring))
         /\ Len(last.results)
              = Len(search(fs, env, last.projectPath, last.userPath, "project",
                           last.scoring))
                + Len(search(fs, env, last.projectPath, last.userPath, "user",
                             last.scoring))
    /\ last.type = "project" =>
         \A i \in 1..Len(last.results) :
           /\ last.results[i].type = "project"
           /\ ~EntryOf(last.results[i].path, last.userPath)
    /\ last.type = "user" =>
         \A i \in 1..Len(last.results) :
           /\ last.results[i].type = "user"
           /\ ~EntryOf(last.results[i].path, last.projectPath)

\* The user-root entries of the last write call whose embedding went to the
\* cache directory.
CachedUserEntries ==
  {last.entries[i] : i \in {j \in 1..Len(last.entries) :
     /\ last.entries[j].dest = "user"
     /\ last.entries[j].savedAt.set
     /\ InCacheDirectory(env, last.entries[j].savedAt.val)}}

\* The ranking has the record of the entry, typed user.
FoundAsUser(results, entry) ==
  \E i \in 1..Len(results) :
    results[i].type = "user" /\ results[i].path = entry.path

\* What C21 says of a search whose user root is root, the root the writer
\* resolved.
SearchFindsCached(root) ==
  /\ ~root.threw
  /\ \A e \in CachedUserEntries, scoring \in Scorings, type \in {"user", "both"} :
       /\ FoundAsUser(search(fs, env, mgr.projectJournalPath, root.path, type, scoring), e)
       /\ e.savedAt.val \notin EmbeddingsUnder(fs, Normalize(root.path))

EmbeddingFiles(f) == {p \in DOMAIN f : EndsWith(p, <<".embedding">>)}

\* The record at p is the record of an entry the step leaves as it is: the
\* markdown file it names exists before and after with the same content.
RecordOfKeptEntry(p) ==
  /\ fs[p].path \in DOMAIN fs
  /\ fs[p].path \in DOMAIN fs'
  /\ fs'[fs[p].path] = fs[fs[p].path]

\* C22: an embedding record is created or absent, never mutated: no step
\* (writeThoughts, generateMissingEmbeddings, in any mode) removes the record
\* of an entry or changes one of its fields.
C22_RecordsNeverMutated ==
  [][\A p \in EmbeddingFiles(fs) :
       RecordOfKeptEntry(p) => (p \in DOMAIN fs' /\ fs'[p] = fs[p])]_vars

\* The record the writer builds for its entry.
WritersRecord ==
  EmbeddingData(generateEmbedding(extractSearchableText(race.content).text),
                extractSearchableText(race.content).text,
                extractSearchableText(race.content).sections,
                race.timestamp, race.filePath)

\* C23: the race of a write with a reconciliation is benign: when fs.access
\* of the scan found the new markdown file without embedding while the
\* writer had not saved it, then after both calls the entry has exactly one
\* embedding record, at its policy location, and it is the record the
\* writer builds, timestamp included.
C23_RaceIsBenign ==
  (race.writer = "done" /\ race.scanner = "done" /\ race.observed) =>
    /\ EmbeddingFiles(fs)
         = {getEmbeddingPathForFile(env, race.filePath, race.dest = "user")}
    /\ fs[getEmbeddingPathForFile(env, race.filePath, race.dest = "user")]
         = WritersRecord

\* The markdown paths of the entries a write call created.
PathsOf(entries) == {entries[i].path : i \in 1..Len(entries)}

\* C24: a filename collision overwrites silently: when a writeThoughts call
\* writes an entry to a path that already holds a markdown file, neither
\* the directory step nor the file write fails, every path the call wrote
\* holds the content the call wrote, no markdown file is added beside
\* those, and every other markdown file is as it was.
C24_CollisionOverwritesSilently ==
  [][(last'.op = "write" /\ PathsOf(last'.entries) \cap DOMAIN fs # {}) =>
       /\ last'.cause \notin {"mkdir", "write"}
       /\ \A i \in 1..Len(last'.entries) :
            fs'[last'.entries[i].path] = last'.entries[i].content
       /\ MarkdownFiles(fs') = MarkdownFiles(fs) \cup PathsOf(last'.entries)
       /\ \A q \in MarkdownFiles(fs) \ PathsOf(last'.entries) : fs'[q] = fs[q]]_vars

\* C24 happens: the last write replaced an entry: its user-root file holds
\* an entry without text, which gets no embedding, and the embedding of the
\* entry that was there before is still beside it.
C24_Witness ==
  /\ last.op = "write"
  /\ ~last.threw
  /\ \E i \in 1..Len(last.entries) :
       /\ last.entries[i].dest = "user"
       /\ ~last.entries[i].savedAt.set
       /\ Exists(fs, ReplaceMdExt(last.entries[i].path))
       /\ fs[ReplaceMdExt(last.entries[i].path)].path = last.entries[i].path
       /\ fs[ReplaceMdExt(last.entries[i].path)].text
            # extractSearchableText(fs[last.entries[i].path]).text

\* The searchable text of a markdown content is empty or whitespace.
Blank(content) == Len(Trim(extractSearchableText(content).text)) = 0

\* Thoughts whose sections have no text: empty and whitespace-only strings.
BlankThoughts ==
  { Thoughts(f, p, Unset, t, Unset) :
      f \in {Unset, Str(<<>>), Str(<<" ">>)}, p \in {Unset, Str(<<" ">>)},
      t \in {Unset, Str(<<"\n", " ">>)} }

\* A call that wrote entries without text left no embedding for them.
NothingEmbedded(r) ==
  /\ EmbeddingFiles(r.w.fs) = EmbeddingFiles(fs)
  /\ \A p \in EmbeddingFiles(fs) : r.w.fs[p] = fs[p]
  /\ \A i \in 1..Len(r.entries) :
       /\ Blank(r.entries[i].content)
       /\ ~r.entries[i].modelCalled
       /\ ~r.entries[i].savedAt.set

\* generateEmbeddingForEntry skipped the entry.
Skipped(g) == ~g.modelCalled /\ ~g.savedAt.set /\ g.w.fs = fs

\* C25: empty text is never embedded: no embedding record on disk has an
\* empty or whitespace-only text; for an entry without searchable text a
\* writeThoughts call does not call the model and creates no embedding
\* file; and the reconciliation's regeneration of such an entry does
\* neither.
C25_EmptyTextNeverEmbedded ==
  /\ \A p \in EmbeddingFiles(fs) : Len(Trim(fs[p].text)) > 0
  /\ last.op = "write" =>
       \A i \in 1..Len(last.entries) :
         Blank(last.entries[i].content) =>
           ~last.entries[i].modelCalled /\ ~last.entries[i].savedAt.set
  /\ \A thoughts \in BlankThoughts, now \in Clock, random \in RandomValues :
       NothingEmbedded(writeThoughts(World(mgr, fs, dirs), env, registry, thoughts,
                                     NoMetadata, now, random, random, {}))
  /\ \A md \in MarkdownFiles(fs), now \in Clock, dest \in {"project", "user"} :
       Blank(fs[md]) =>
         Skipped(generateEmbeddingForEntry(World(mgr, fs, dirs), env, registry, md,
                                           fs[md], now, {}, dest))

\* C25 happens: a write created an entry without searchable text and
\* nothing was embedded for it, while the project root's entry has its
\* record.
C25_Witness ==
  /\ last.op = "write"
  /\ \E i \in 1..Len(last.entries) :
       /\ Blank(last.entries[i].content)
       /\ last.entries[i].path \in MarkdownFiles(fs)
       /\ ~last.entries[i].savedAt.set
  /\ \E p \in EmbeddingFiles(fs) : EntryOf(fs[p].path, mgr.projectJournalPath)

\* The record names a markdown file and carries the date of the file's
\* directory name and the time of day of its filename, to the second.
CarriesPathTime(record) ==
  /\ MatchesDate(Basename(Dirname(record.path)))
  /\ MatchesTime(BasenameExt(record.path, <<".md">>))
  /\ record.timestamp = Timestamp(Basename(Dirname(record.path))[1],
                                  BasenameExt(record.path, <<".md">>)[1], 0)

\* C26: a regenerated record's timestamp is derived from the entry's path,
\* not from the file's modification time or the time of the scan: every
\* embedding record a generateMissingEmbeddings call creates or replaces
\* carries the local date and time its markdown file's directory name and
\* filename encode.
C26_TimestampFromPath ==
  [][last'.op = "reconcile" =>
       \A p \in EmbeddingFiles(fs') :
         (p \notin DOMAIN fs \/ fs'[p] # fs[p]) => CarriesPathTime(fs'[p])]_vars

\* A scan on a later day regenerated a record that carries the path's time.
C26_Witness ==
  /\ last.op = "reconcile"
  /\ last.persisted # {}
  /\ \E p \in EmbeddingFiles(fs) :
       /\ fs[p].path \in last.persisted
       /\ CarriesPathTime(fs[p])
       /\ \A now \in Clock : fs[p].timestamp # now

\* The embedding files the step creates or replaces.
WrittenRecords == {p \in EmbeddingFiles(fs') : p \notin DOMAIN fs \/ fs'[p] # fs[p]}

\* The entry of the call whose markdown file is path.
EntryAt(entries, path) == {i \in 1..Len(entries) : entries[i].path = path}

\* A write step's records are records of entries whose markdown file the
\* call wrote.
EmbedsWhatItWrote ==
  last'.op = "write" =>
    \A p \in WrittenRecords :
      /\ fs'[p].path \in MarkdownFiles(fs')
      /\ EntryAt(last'.entries, fs'[p].path) # {}

\* A reconcile step's records are records of markdown files that were there.
RegeneratesWhatItFound ==
  last'.op = "reconcile" =>
    \A p \in WrittenRecords : fs'[p].path \in MarkdownFiles(fs)

\* C27: markdown precedes embedding: every embedding record on disk names in
\* its path field a markdown file that exists; a write call generates an
\* embedding only for an entry whose markdown file it has written, and none
\* for a destination whose directory creation or markdown write failed; a
\* reconciliation writes records only for markdown files it found.
C27_MarkdownPrecedesEmbedding ==
  /\ [](\A p \in EmbeddingFiles(fs) : fs[p].path \in MarkdownFiles(fs))
  /\ [](last.op = "write" =>
          /\ \A i \in 1..Len(last.entries) : last.entries[i].path \in MarkdownFiles(fs)
          /\ last.cause \in {"mkdir", "write"} =>
                \A i \in 1..Len(last.entries) :
                  Fault(last.entries[i].dest, last.cause) \notin last.faults)
  /\ [][EmbedsWhatItWrote /\ RegeneratesWhatItFound]_vars

\* The project entry was written and embedded, and the markdown write of the
\* user destination failed.
C27_Witness ==
  /\ last.op = "write"
  /\ last.threw
  /\ last.cause = "write"
  /\ Fault("user", "write") \in last.faults
  /\ \E i \in 1..Len(last.entries) :
       /\ last.entries[i].dest = "project"
       /\ last.entries[i].savedAt.set
       /\ last.entries[i].savedAt.val \in EmbeddingFiles(fs)

\* The step is a writeThoughts call with both destinations.
TwoDestinationWrite ==
  last'.op = "write" /\ Destinations(last'.input) = {"project", "user"}

\* The project-root write of the call failed: the creation of its day
\* directory or fs.writeFile.
ProjectWriteFailed ==
  \/ Fault("project", "write") \in last'.faults
  \/ Fault("project", "mkdir") \in last'.faults /\ last'.cause = "mkdir"

\* The user-root write of the call failed after the project-root write.
UserWriteFailed ==
  \/ Fault("user", "write") \in last'.faults
  \/ Fault("user", "mkdir") \in last'.faults /\ last'.cause = "mkdir"

\* The call left the project entry: its markdown file with the entry's
\* content, and the embedding it saved for it.
ProjectEntryRemains(entry) ==
  /\ entry.dest = "project"
  /\ entry.path \in DOMAIN fs'
  /\ fs'[entry.path] = entry.content
  /\ entry.savedAt.set =>
       /\ entry.savedAt.val \in DOMAIN fs'
       /\ fs'[entry.savedAt.val].path = entry.path

\* C28: a two-destination write is not atomic across roots and is ordered
\* project first: when the project-root write fails the call fails and
\* creates no file; when the project-root write succeeds and the user-root
\* write fails the call fails while the project entry's markdown file and
\* embedding stay on disk.
C28_ProjectFirstNotAtomic ==
  [][TwoDestinationWrite =>
       /\ ProjectWriteFailed =>
            last'.threw /\ last'.entries = <<>> /\ DOMAIN fs' = DOMAIN fs
       /\ UserWriteFailed =>
            /\ last'.threw
            /\ Len(last'.entries) = 1
            /\ ProjectEntryRemains(last'.entries[1])
            /\ MarkdownFiles(fs') \ MarkdownFiles(fs) \subseteq {last'.entries[1].path}]_vars

\* The user-root write of a two-destination call failed and the project
\* entry is on disk with its embedding.
C28_Witness ==
  /\ last.op = "write"
  /\ Destinations(last.input) = {"project", "user"}
  /\ last.threw
  /\ \E step \in {"mkdir", "write"} :
       last.cause = step /\ Fault("user", step) \in last.faults
  /\ Len(last.entries) = 1
  /\ last.entries[1].path \in MarkdownFiles(fs)
  /\ last.entries[1].savedAt.set
  /\ last.entries[1].savedAt.val \in EmbeddingFiles(fs)
  /\ fs[last.entries[1].savedAt.val].path = last.entries[1].path

\* The disambiguator of a filename: what follows HH-MM-SS-.
Disambiguator(filename) == SubSeq(filename, 10, Len(filename))

\* C29: every entry the writer creates is reachable and parseable by
\* reconciliation: for every creation time the day directory name of
\* formatDate matches the scanner's YYYY-MM-DD pattern, the filename of
\* formatTimestamp has a disambiguator of exactly six digits, the
\* milliseconds times 1000 plus a random value below 1000, and
\* extractTimestampFromPath gives for these names the creation time
\* truncated to whole seconds, not null.
C29_WriterNamesParseBack ==
  last.op = "names" =>
    /\ MatchesDatePattern(last.dirName)
    /\ MatchesTimePattern(last.filename)
    /\ Len(Disambiguator(last.filename)) = 6
    /\ IsDigits(Disambiguator(last.filename), 1, 6)
    /\ last.random < 1000
    /\ parseInt(Disambiguator(last.filename)) = last.date.ms * 1000 + last.random
    /\ extractTimestampFromNames(last.filename, last.dirName)
         = [null |-> FALSE, date |-> [last.date EXCEPT !.ms = 0]]

\* An entry created in a one-digit month at a time with milliseconds, whose
\* disambiguator needs padding, was named and its time read back.
C29_Witness ==
  /\ last.op = "names"
  /\ last.date.month + 1 < 10
  /\ last.date.hours < 10
  /\ last.date.ms > 0
  /\ last.date.ms * 1000 + last.random < 100000
  /\ ~last.extracted.null
  /\ last.extracted.date = [last.date EXCEPT !.ms = 0]

\* The step leaves every file that is not an embedding file as it was, and
\* deletes no file.
LeavesMarkdownRecord ==
  /\ DOMAIN fs \subseteq DOMAIN fs'
  /\ MarkdownFiles(fs') = MarkdownFiles(fs)
  /\ \A p \in DOMAIN fs \ EmbeddingFiles(fs) : fs'[p] = fs[p]

\* Every file the step creates is the embedding file of a markdown file the
\* scan came to.
CreatesEmbeddingsOfScanned ==
  \A p \in DOMAIN fs' \ DOMAIN fs :
    /\ p \in EmbeddingFiles(fs')
    /\ fs'[p].path \in last'.regenerated
    /\ EndsWith(fs'[p].path, <<".md">>)
    /\ MatchesDate(Basename(Dirname(fs'[p].path)))

\* C30: reconciliation leaves the markdown record untouched: a
\* generateMissingEmbeddings call creates, modifies or deletes no markdown
\* file, and the only change it makes to the filesystem is creating
\* embedding files for markdown files it scanned: every file that existed
\* before the call is the same after it.
C30_OnlyCreatesEmbeddings ==
  [][last'.op = "reconcile" =>
       /\ LeavesMarkdownRecord
       /\ CreatesEmbeddingsOfScanned
       /\ \A p \in DOMAIN fs : fs'[p] = fs[p]]_vars
====
